---- MODULE Spec2Model ----
(***************************************************************************)
(* Model of the QEMU cloud provider: the MachineRequestStatusController    *)
(* (internal/provisioner/provisioner.go, second half: package controller)  *)
(* that binds MachineRequests to QemuMachines through                      *)
(* QemuMachineAllocations, and the iPXE server's ensureQemuMachine         *)
(* (internal/ipxe/ipxe.go) that registers QemuMachines.                    *)
(*                                                                         *)
(* A pass of the controller over one MachineRequest is a sequence of       *)
(* steps, one per store call (List, Create, Get, Teardown, Destroy, the    *)
(* status write of the runtime) or backend call (ResetMachine).  Passes of *)
(* one request never overlap (per-key dispatch of the QController          *)
(* runtime); passes of distinct requests interleave step by step unless    *)
(* the run is serial.                                                      *)
(*                                                                         *)
(* A failing store call leaves the store unchanged and ends the pass with  *)
(* the error; the process is not killed in the middle of a pass.           *)
(***************************************************************************)
EXTENDS Integers, Sequences, FiniteSets, TLC

\* ---------------------------------------------------------------- bounds
NumRequests == 3        \* ids a MachineRequest can have
NumMachines == 2        \* size of the VM pool (ids of machines that may boot)
MaxCreations == 3       \* requests created over a serial run
MaxConcurrent == 2      \* requests created over an interleaved run
MaxLive == 2            \* requests created over a run checked for liveness
MaxFaults == 1          \* failing calls in a run checked for liveness
MaxResetLog == 2        \* cap on the resets recorded for one teardown
MaxQueries == 2         \* boot queries in flight at a time
MaxBootRequests == 1    \* requests created over a run of the boot service
MaxBootQueries == 2     \* boot queries received over a run of the boot service
MaxCorruptRequests == 1 \* requests created over a run with label loss
MaxImageRequests == 1   \* requests created over a run with image changes
MaxRevisions == 1         \* changes of the image reference of one request
MaxRenderRequests == 1    \* requests created over a run with failing renders
MaxRenderQueries == 2     \* boot queries received over such a run
MaxConns == 2             \* connections the listener accepts over a run
MaxDisks == 2             \* disk paths in a machine launch config
MaxResetCalls == 2        \* calls of ResetMachine for one machine
MaxHostBits == 2          \* host bits of the configured subnet
MaxPoolSize == 3          \* machines asked for, or found in an existing pool
MaxLabelRequests == 2     \* requests created when the labels of requests vary
MaxRecords == 1           \* records of each type in the store at start-up
MaxSlots == 4             \* user slots of the BMC

Requests == 1..NumRequests
Machines == 1..NumMachines
Queries == 1..MaxQueries

\* the empty string: no machine id / no request id
NoMachine == 0
NoRequest == 0

\* seconds after which a requeued pass is run again
requeueInterval == 30

VARIABLES
    serial,     \* TRUE: the runtime runs one pass at a time (concurrency 1)
    budget,     \* number of MachineRequests Omni may still create
    limited,    \* TRUE iff only finitely many calls of the run fail
    faults,     \* number of calls that may still fail in a limited run
    req,        \* MachineRequest r: "absent", "running", "tearingDown"
    fin,        \* MachineRequest r carries the controller's finalizer
    status,     \* MachineRequestStatus r: [exists, stage, id]
    alloc,      \* QemuMachineAllocation r: [exists, uuid (the label)]
    machines,   \* ids of the QemuMachine resources
    pc,         \* position of the pass over request r
    ml,         \* pass-local: qemuMachineList
    uuid,       \* pass-local: machineUUID
    outcome,    \* how the last pass over r ended
    bound,      \* history: label of the allocation created for r
    resetLog,   \* history: ResetMachine calls of r's teardown, in order
    resetOK,    \* history: a ResetMachine call of r's teardown succeeded
    qbudget,    \* number of boot queries that may still arrive
    q,          \* boot query k in flight: [pc, id, found, solo]; solo is
                \* history: no other query for the id was in flight with it
    unalloc,    \* the iPXE server's unallocatedMachineUUIDSet
    resp,       \* last response written to a query for machine id m
    rev,        \* number of changes of the image reference of request r
    rspec,      \* pass-local: the request as the runtime read it for the
                \* pass over r, [rev, schematicId, talosVersion]
    task,       \* Provider.Run: state of the reconcile loop and of each
                \* goroutine of the errgroup
    ctxDone,    \* Provider.Run: the context of the errgroup is cancelled
    main,       \* Provider.Run: position of the calling goroutine
    runErr,     \* Provider.Run: what it returned ("none" while it runs)
    listening,  \* iPXE server: the listener accepts connections
    conn,       \* iPXE server: connection c is "none" (not accepted yet),
                \* "active" (query in flight) or "closed"
    rm,         \* ResetMachine of one machine: [pc, calls, conf, disk,
                \* reboot, err]
    pool,       \* Provisioner.Run: [pc, subnetCIDR, numMachines, existing,
                \* gatewayAddr, nodes, created, err]
    label,      \* label[r]: the value of the cloud-provider-id label that
                \* MachineRequest r carries ("none": no such label)
    clr,        \* clear-state at start-up: [pc, clear, cluster, poolErr,
                \* listed, todo, rec, errs, err]
    bmc         \* AttemptBMCUserSetup: [pc, username, MaxUsers, users, before,
                \* i, userID, exists, err]

listener == <<listening, conn>>
aside == <<rm, pool, label, clr, bmc>>
ext == <<listener, aside>>
sup == <<task, ctxDone, main, runErr>>
run == <<sup, ext>>

vars == <<run, serial, limited, budget, faults, req, fin, status, alloc, machines, pc, ml, uuid,
          outcome, bound, resetLog, resetOK, qbudget, q, unalloc, resp, rev,
          rspec>>

store == <<req, fin, status, alloc, machines>>
history == <<bound, resetLog, resetOK>>
boot == <<qbudget, q, unalloc, resp>>
image == <<rev, rspec>>

NoStatus == [exists |-> FALSE, stage |-> "UNKNOWN", id |-> NoMachine]
NoAlloc == [exists |-> FALSE, uuid |-> NoMachine,
            schematicId |-> <<>>, talosVersion |-> <<>>]

\* The image reference of MachineRequest r (TypedSpec().Value.SchematicId
\* and .TalosVersion), strings as sequences of characters: the requests
\* carry a version without the prefix, with it, and an empty one, and every
\* change of the image reference gives another schematic and version.
SchematicIdAt(r, n) == <<"s", r, n>>
TalosVersionAt(r, n) ==
    CASE (r + n) % 3 = 1 -> <<"1", ".", "9">>
      [] (r + n) % 3 = 2 -> <<"v", "1", ".", "9">>
      [] OTHER -> <<>>
SchematicIdOf(r) == SchematicIdAt(r, rev[r])
TalosVersionOf(r) == TalosVersionAt(r, rev[r])

\* The MachineRequest handed to a pass, and none.
RequestRead(r) ==
    [rev |-> rev[r], schematicId |-> SchematicIdOf(r),
     talosVersion |-> TalosVersionOf(r)]
NoRequestRead == [rev |-> 0, schematicId |-> <<>>, talosVersion |-> <<>>]

\* NewQemuMachineAllocation(request id) labelled with the machine uuid and
\* stamped with the request's image reference.
\* (mutant of NewAllocation: the image reference is not copied)
NewAllocation_NoImage(r, m) ==
    [exists |-> TRUE, uuid |-> m, schematicId |-> <<>>, talosVersion |-> <<>>]

NewAllocation(r, m) ==
    [exists |-> TRUE, uuid |-> m,
     schematicId |-> rspec[r].schematicId,
     talosVersion |-> rspec[r].talosVersion]

Max(S) == CHOOSE x \in S : \A y \in S : y <= x

\* (mutant of Min: the scan keeps the last hit instead of returning at the
\* first)
Min_LastHit(S) == CHOOSE x \in S : \A y \in S : y <= x

\* The first element in listing order (lists are in id order).
Min(S) == CHOOSE x \in S : \A y \in S : x <= y

\* ------------------------------------------------------- findMachineUUID
\* (mutant of MachineUUIDToRequestID: the map is filled under the wrong key,
\* no machine uuid is found in it)
MachineUUIDToRequestID_NothingIndexed(al) ==
    [m \in Machines |-> NoRequest]

\* The reverse index machine uuid -> request id built from the allocation
\* list.  The list is in id order and a later entry overwrites an earlier
\* one, so a uuid carried by several allocations maps to the largest id.
\* Allocations without the label are skipped.
MachineUUIDToRequestID(al) ==
    [m \in Machines |->
        LET owners == {r \in Requests : al[r].exists /\ al[r].uuid = m}
        IN  IF owners = {} THEN NoRequest ELSE Max(owners)]

\* (mutant of FindMachineUUID: the comparison with requestID is lost, a
\* machine indexed to any request is skipped)
FindMachineUUID_NoRematch(list, al, requestID) ==
    LET idx == MachineUUIDToRequestID(al)
        hit == {m \in list : idx[m] = NoRequest}
    IN  IF hit = {}
        THEN [machineUUID |-> NoMachine, isAllocated |-> FALSE,
              err |-> "errNoMachineAvailable"]
        ELSE [machineUUID |-> Min(hit), isAllocated |-> FALSE, err |-> "nil"]

\* The scan of the machine list (in id order): a machine indexed to
\* requestID is returned as already allocated, a machine indexed to another
\* request is skipped, a machine not in the index is returned as available.
FindMachineUUID(list, al, requestID) ==
    LET idx == MachineUUIDToRequestID(al)
        hit == {m \in list : idx[m] = NoRequest \/ idx[m] = requestID}
    IN  IF hit = {}
        THEN [machineUUID |-> NoMachine, isAllocated |-> FALSE,
              err |-> "errNoMachineAvailable"]
        ELSE [machineUUID |-> Min(hit),
              isAllocated |-> idx[Min(hit)] = requestID,
              err |-> "nil"]

\* ------------------------------------------------------------------ Init
IdleQuery ==
    [pc |-> "idle", id |-> NoMachine, found |-> NoAlloc, solo |-> TRUE,
     err |-> "nil"]
NoResponse == [code |-> 0, contentType |-> "", body |-> <<>>]

\* Provider.Run in its steady state: the goroutines started, the runtime
\* running the controller.
Tasks == {"loop", "watch", "ipxe", "pool"}

Conns == 1..MaxConns
InitListener == listening = TRUE /\ conn = [c \in Conns |-> "none"]

\* The size a wiped disk file is truncated to (6 GiB), counted in MiB.
diskSize == 6 * 1024

\* A disk file: its size and whether it holds data written by the machine.
UsedDisk == [size |-> diskSize, data |-> TRUE]

\* The launch configs a machine can have on disk: none, one that cannot be
\* read, or one with its disk paths and gateway addresses.
LaunchConfs ==
    {[state |-> "missing", disks |-> 0, gateways |-> 0],
     [state |-> "unreadable", disks |-> 0, gateways |-> 0]}
    \cup [state : {"ok"}, disks : 0..MaxDisks, gateways : 0..1]

IdleReset(conf) ==
    [pc |-> "idle", calls |-> 0, conf |-> conf,
     disk |-> [d \in 1..MaxDisks |-> UsedDisk], reboot |-> "none",
     err |-> "none"]

InitReset == rm = IdleReset([state |-> "ok", disks |-> 1, gateways |-> 1])

\* A subnet as netip.Prefix holds it: the address as written in the
\* configuration (not masked) and the number of host bits.
Subnets == [addr : 0..(2^MaxHostBits - 1), bits : 1..MaxHostBits]

\* What Reflect finds in the state directory: no cluster, one that cannot
\* be loaded, or a cluster with so many nodes.
NoPool == [state |-> "none", nodes |-> 0]
ExistingPools ==
    {NoPool, [state |-> "unreadable", nodes |-> 0]}
    \cup [state : {"loaded"}, nodes : 0..MaxPoolSize]

NewPool(cidr, n, existing) ==
    [pc |-> "gateway", subnetCIDR |-> cidr, numMachines |-> n,
     existing |-> existing, gatewayAddr |-> 0, nodes |-> <<>>,
     created |-> <<>>, err |-> "none"]

InitPool == pool = NewPool([addr |-> 0, bits |-> MaxHostBits], 0, NoPool)

\* meta.ProviderID, and the values the cloud-provider-id label of a
\* MachineRequest can have: this provider's id, another provider's id, or
\* no label at all.
ProviderID == "qemu"
Labels == {ProviderID, "other", "none"}

\* The requests Omni creates for this provider carry its id.
InitLabel == label = [r \in Requests |-> ProviderID]

\* The resource types clearState lists, in the order of its loop, and the
\* records of the store at start-up.
ListOrder == <<"MachineRequestStatus", "QemuMachine", "QemuMachineAllocation">>
Records == {<<k, n>> : k \in 1..Len(ListOrder), n \in 1..MaxRecords}

NewClear(clear, cluster, present) ==
    [pc |-> "begin", clear |-> clear, cluster |-> cluster, poolErr |-> "none",
     listed |-> 0, todo |-> <<>>,
     rec |-> [x \in Records |-> IF x \in present THEN "present" ELSE "absent"],
     errs |-> 0, err |-> "none"]

InitClear == clr = NewClear(FALSE, "none", {})

\* User names are strings, kept as sequences of characters of which only
\* the blank and whole words matter.
Names == {<<>>, <<" ">>, <<"(Empty User)">>, <<"(Empty User)", " ">>,
          <<"talos-agent">>, <<"admin">>}
Usernames == {<<"talos-agent">>, <<"admin">>}

\* A user slot of the BMC: unused slots make GetUserName fail.
Slots == 1..MaxSlots
SlotStates ==
    [used : {TRUE}, name : Names, pass : {"old"}, admin : {FALSE}, enabled : {FALSE}]
    \cup {[used |-> FALSE, name |-> <<>>, pass |-> "old", admin |-> FALSE,
           enabled |-> FALSE]}

\* The MaxUsers byte of the user summary: the number of slots in its low
\* bits, with or without a bit set above them.
SummaryBytes == {n + h * 32 : n \in 0..MaxSlots, h \in 0..1}

NewSetup(username, byte, users) ==
    [pc |-> "summary", username |-> username, MaxUsers |-> byte,
     users |-> users, before |-> users, i |-> 0, userID |-> 0,
     exists |-> FALSE, err |-> "none"]

InitBmc ==
    bmc = NewSetup(<<"talos-agent">>, 0,
                   [u \in Slots |-> [used |-> FALSE, name |-> <<>>, pass |-> "old",
                                     admin |-> FALSE, enabled |-> FALSE]])
InitAside == InitReset /\ InitPool /\ InitLabel /\ InitClear /\ InitBmc
InitExt == InitListener /\ InitAside

InitSupervised ==
    /\ task = [t \in Tasks |-> "running"]
    /\ ctxDone = FALSE
    /\ main = "runtime"
    /\ runErr = "none"
    /\ InitExt

InitStore ==
    /\ req = [r \in Requests |-> "absent"]
    /\ fin = [r \in Requests |-> FALSE]
    /\ status = [r \in Requests |-> NoStatus]
    /\ alloc = [r \in Requests |-> NoAlloc]
    /\ machines = {}
    /\ pc = [r \in Requests |-> "idle"]
    /\ ml = [r \in Requests |-> {}]
    /\ uuid = [r \in Requests |-> NoMachine]
    /\ outcome = [r \in Requests |-> "none"]
    /\ bound = [r \in Requests |-> NoMachine]
    /\ resetLog = [r \in Requests |-> <<>>]
    /\ resetOK = [r \in Requests |-> FALSE]
    /\ q = [k \in Queries |-> IdleQuery]
    /\ unalloc = {}
    /\ resp = [m \in Machines |-> NoResponse]
    /\ rev = [r \in Requests |-> 0]
    /\ rspec = [r \in Requests |-> NoRequestRead]

Init ==
    /\ serial = FALSE /\ limited = FALSE
    /\ budget = MaxConcurrent /\ faults = MaxFaults /\ InitStore /\ InitSupervised
    /\ qbudget = MaxBootQueries
InitSerial ==
    /\ serial = TRUE /\ limited = FALSE
    /\ budget = MaxCreations /\ faults = MaxFaults /\ InitStore /\ InitSupervised
    /\ qbudget = MaxBootQueries
InitLive ==
    /\ serial = TRUE /\ limited = TRUE
    /\ budget = MaxLive /\ faults = MaxFaults /\ InitStore /\ InitSupervised
    /\ qbudget = MaxBootQueries
InitUnlabelled ==
    /\ serial = TRUE /\ limited = TRUE
    /\ budget = MaxLabelRequests /\ faults = MaxFaults /\ InitStore
    /\ qbudget = MaxBootQueries
    /\ task = [t \in Tasks |-> "running"]
    /\ ctxDone = FALSE
    /\ main = "runtime"
    /\ runErr = "none"
    /\ InitListener /\ InitReset /\ InitPool /\ InitClear /\ InitBmc
    /\ label \in [Requests -> Labels]
InitCorrupt ==
    /\ serial = TRUE /\ limited = FALSE
    /\ budget = MaxCorruptRequests /\ faults = MaxFaults /\ InitStore /\ InitSupervised
    /\ qbudget = MaxBootQueries
InitImage ==
    /\ serial = TRUE /\ limited = FALSE
    /\ budget = MaxImageRequests /\ faults = MaxFaults /\ InitStore /\ InitSupervised
    /\ qbudget = MaxBootQueries
InitBoot ==
    /\ serial = TRUE /\ limited = TRUE
    /\ budget = MaxBootRequests /\ faults = MaxFaults /\ InitStore /\ InitSupervised
    /\ qbudget = MaxBootQueries
InitRender ==
    /\ serial = TRUE /\ limited = TRUE
    /\ budget = MaxRenderRequests /\ faults = MaxFaults /\ InitStore /\ InitSupervised
    /\ qbudget = MaxRenderQueries

\* ----------------------------------------------------------- environment
\* Omni creates MachineRequest r (labelled with this provider's id); the
\* history of an earlier request with the same id is forgotten.
CreateRequest(r) ==
    /\ req[r] = "absent"
    /\ budget > 0
    /\ budget' = budget - 1
    /\ req' = [req EXCEPT ![r] = "running"]
    /\ outcome' = [outcome EXCEPT ![r] = "none"]
    /\ bound' = [bound EXCEPT ![r] = NoMachine]
    /\ resetLog' = [resetLog EXCEPT ![r] = <<>>]
    /\ resetOK' = [resetOK EXCEPT ![r] = FALSE]
    /\ rev' = [rev EXCEPT ![r] = 0]
    /\ rspec' = [rspec EXCEPT ![r] = NoRequestRead]
    /\ UNCHANGED <<boot, run, serial, limited, faults, fin, status, alloc, machines,
                   pc, ml, uuid>>

\* Omni removes MachineRequest r: with the finalizer on it the request is
\* only marked (tearing down), without it the request is gone at once.
RemoveRequest(r) ==
    /\ req[r] = "running"
    /\ req' = [req EXCEPT ![r] = IF fin[r] THEN "tearingDown" ELSE "absent"]
    /\ UNCHANGED <<image, boot, run, serial, limited, budget, faults, fin, status, alloc, machines, pc, ml, uuid,
                   outcome, history>>

\* ---------------------------------------------------- ensureQemuMachine
\* A boot query of machine m: an allocation labelled m is the answer if
\* there is one; else the QemuMachine m is created unless it exists.
EnsureQemuMachine(m) ==
    /\ machines' =
         IF \E r \in Requests : alloc[r].exists /\ alloc[r].uuid = m
         THEN machines
         ELSE machines \cup {m}
    /\ UNCHANGED <<image, boot, run, serial, limited, budget, faults, req, fin, status, alloc, pc, ml, uuid,
                   outcome, history>>

\* ------------------------------------------------------- pass scheduling
\* A call fails: allowed while the run has faults left.
Fault ==
    /\ limited => faults > 0
    /\ faults' = IF limited THEN faults - 1 ELSE faults

OthersIdle(r) == \A o \in Requests \ {r} : pc[o] = "idle"

Mapped_LabelPresent(r) == label[r] # "none"

\* MapMetadataOptionalFunc: the request is mapped to a status, and so taken
\* up by the controller, when it has the label and the label's value is
\* this provider's id.
Mapped(r) == label[r] # "none" /\ label[r] = ProviderID

MayStart(r) == pc[r] = "idle" /\ (serial => OthersIdle(r)) /\ Mapped(r)

EndPass(r, how) ==
    /\ pc' = [pc EXCEPT ![r] = "idle"]
    /\ ml' = [ml EXCEPT ![r] = {}]
    /\ uuid' = [uuid EXCEPT ![r] = NoMachine]
    /\ outcome' = [outcome EXCEPT ![r] = how]

\* ------------------------------------------- TransformExtraOutputFunc
\* (mutant of RcStart: the pass brings the allocation of the request in line
\* with the image the request names now)
RcStart_SyncsImage(r) ==
    /\ req[r] = "running"
    /\ MayStart(r)
    /\ fin' = [fin EXCEPT ![r] = TRUE]
    /\ pc' = [pc EXCEPT ![r] = "rcListMachines"]
    /\ outcome' = [outcome EXCEPT ![r] = "running"]
    /\ rspec' = [rspec EXCEPT ![r] = RequestRead(r)]
    /\ alloc' = [alloc EXCEPT ![r] =
                   IF @.exists
                   THEN [@ EXCEPT !.schematicId = SchematicIdOf(r),
                                  !.talosVersion = TalosVersionOf(r)]
                   ELSE @]
    /\ UNCHANGED <<rev, boot, run, serial, limited, budget, faults, req, status,
                   machines, ml, uuid, history>>

\* The runtime takes up a running request and puts its finalizer on it.
RcStart(r) ==
    /\ req[r] = "running"
    /\ MayStart(r)
    /\ fin' = [fin EXCEPT ![r] = TRUE]
    /\ pc' = [pc EXCEPT ![r] = "rcListMachines"]
    /\ outcome' = [outcome EXCEPT ![r] = "running"]
    /\ rspec' = [rspec EXCEPT ![r] = RequestRead(r)]
    /\ UNCHANGED <<rev, boot, run, serial, limited, budget, faults, req, status, alloc,
                   machines, ml, uuid, history>>

\* findMachineUUID, first read: the list of QemuMachines.
RcListMachines(r) ==
    /\ pc[r] = "rcListMachines"
    /\ ml' = [ml EXCEPT ![r] = machines]
    /\ pc' = [pc EXCEPT ![r] = "rcListAllocations"]
    /\ UNCHANGED <<image, boot, run, serial, limited, budget, faults, store, uuid, outcome, history>>

\* (mutant of RcListAllocations: the scan runs on an empty reverse index,
\* every listed machine looks available)
RcListAllocations_NoIndex(r) ==
    /\ pc[r] = "rcListAllocations"
    /\ LET f == FindMachineUUID(ml[r], [o \in Requests |-> NoAlloc], r)
       IN  /\ uuid' = [uuid EXCEPT ![r] = f.machineUUID]
           /\ pc' = [pc EXCEPT ![r] =
                       IF f.err = "nil" /\ ~f.isAllocated
                       THEN "rcCreate" ELSE "rcWriteStatus"]
    /\ ml' = [ml EXCEPT ![r] = {}]
    /\ UNCHANGED <<image, boot, run, serial, limited, budget, faults, store, outcome, history>>

\* findMachineUUID, second read: the list of allocations, then the scan.
\* Exhausted and already-allocated go to the status write, a new pick goes
\* to the creation of the allocation.
RcListAllocations(r) ==
    /\ pc[r] = "rcListAllocations"
    /\ LET f == FindMachineUUID(ml[r], alloc, r)
       IN  /\ uuid' = [uuid EXCEPT ![r] = f.machineUUID]
           /\ pc' = [pc EXCEPT ![r] =
                       IF f.err = "nil" /\ ~f.isAllocated
                       THEN "rcCreate" ELSE "rcWriteStatus"]
    /\ ml' = [ml EXCEPT ![r] = {}]
    /\ UNCHANGED <<image, boot, run, serial, limited, budget, faults, store, outcome, history>>

\* r.Create of the allocation with id r, labelled with the picked machine;
\* an allocation with that id in the store makes Create fail.
RcCreate(r) ==
    /\ pc[r] = "rcCreate"
    /\ IF alloc[r].exists
       THEN /\ EndPass(r, "error")
            /\ UNCHANGED <<alloc, bound>>
       ELSE /\ alloc' = [alloc EXCEPT ![r] = NewAllocation(r, uuid[r])]
            /\ bound' = [bound EXCEPT ![r] = uuid[r]]
            /\ pc' = [pc EXCEPT ![r] = "rcWriteStatus"]
            /\ UNCHANGED <<ml, uuid, outcome>>
    /\ UNCHANGED <<image, boot, run, serial, limited, budget, faults, req, fin, status, machines, resetLog, resetOK>>

\* The interval of the requeue that ends a pass this way, 0 if none:
\* controller.NewRequeueInterval and controller.NewRequeueErrorf both carry
\* requeueInterval.
RequeueAfter(how) ==
    IF how \in {"requeue", "requeueError"} THEN requeueInterval ELSE 0

\* (mutant of PassResult: errNoMachineAvailable is returned like any error)
PassResult_ExhaustedIsError(r) ==
    IF uuid[r] = NoMachine THEN "error" ELSE "ok"

\* What the transform returns once the status is set: a requeue when no
\* machine was available, else nil.
PassResult(r) ==
    IF uuid[r] = NoMachine THEN "requeue" ELSE "ok"

\* (mutant of RcWriteStatus: the transform forgets to set the id)
RcWriteStatus_IdNotSet(r) ==
    /\ pc[r] = "rcWriteStatus"
    /\ status' = [status EXCEPT ![r] =
                    IF uuid[r] = NoMachine
                    THEN [exists |-> TRUE, stage |-> "PROVISIONING", id |-> status[r].id]
                    ELSE [exists |-> TRUE, stage |-> "PROVISIONED", id |-> status[r].id]]
    /\ EndPass(r, PassResult(r))
    /\ UNCHANGED <<image, boot, run, serial, limited, budget, faults, req, fin, alloc, machines, history>>

\* The runtime writes the status the transform has set: stage PROVISIONING
\* (id untouched) with a requeue when no machine was available, else stage
\* PROVISIONED with the machine id.
RcWriteStatus(r) ==
    /\ pc[r] = "rcWriteStatus"
    /\ status' = [status EXCEPT ![r] =
                    IF uuid[r] = NoMachine
                    THEN [exists |-> TRUE, stage |-> "PROVISIONING", id |-> status[r].id]
                    ELSE [exists |-> TRUE, stage |-> "PROVISIONED", id |-> uuid[r]]]
    /\ EndPass(r, PassResult(r))
    /\ UNCHANGED <<image, boot, run, serial, limited, budget, faults, req, fin, alloc, machines, history>>

\* ------------------------------------ FinalizerRemovalExtraOutputFunc
\* The runtime takes up a request that is being torn down.
TdStart(r) ==
    /\ req[r] = "tearingDown"
    /\ MayStart(r)
    /\ pc' = [pc EXCEPT ![r] = "tdGet"]
    /\ outcome' = [outcome EXCEPT ![r] = "running"]
    /\ UNCHANGED <<image, boot, run, serial, limited, budget, faults, store, ml, uuid, history>>

\* (mutant of TdGet: the not-found check is missing, the callback goes on)
TdGet_NotFoundIgnored(r) ==
    /\ pc[r] = "tdGet"
    /\ uuid' = [uuid EXCEPT ![r] = alloc[r].uuid]
    /\ pc' = [pc EXCEPT ![r] = "tdTeardown"]
    /\ UNCHANGED <<image, boot, run, serial, limited, budget, faults, store, ml, outcome, history>>

\* r.Get of the allocation: not found ends the callback with nil; found
\* keeps the allocation (its label) for the rest of the pass.
TdGet(r) ==
    /\ pc[r] = "tdGet"
    /\ IF alloc[r].exists
       THEN /\ uuid' = [uuid EXCEPT ![r] = alloc[r].uuid]
            /\ pc' = [pc EXCEPT ![r] = "tdTeardown"]
       ELSE /\ pc' = [pc EXCEPT ![r] = "tdRelease"]
            /\ UNCHANGED uuid
    /\ UNCHANGED <<image, boot, run, serial, limited, budget, faults, store, ml, outcome, history>>

\* r.Teardown reports the allocation ready to be destroyed.
TdTeardown(r) ==
    /\ pc[r] = "tdTeardown"
    /\ pc' = [pc EXCEPT ![r] = "tdDestroy"]
    /\ UNCHANGED <<image, boot, run, serial, limited, budget, faults, store, ml, uuid, outcome, history>>

\* (mutant of TdNotReady: the allocation is destroyed before the readiness
\* is looked at)
TdNotReady_AfterDestroy(r) ==
    /\ Fault
    /\ pc[r] = "tdTeardown"
    /\ alloc' = [alloc EXCEPT ![r] = NoAlloc]
    /\ EndPass(r, "requeueError")
    /\ UNCHANGED <<image, boot, run, serial, limited, budget, req, fin, status, machines,
                   history>>

\* r.Teardown reports dependents still attached: requeue error.
TdNotReady(r) ==
    /\ Fault
    /\ pc[r] = "tdTeardown"
    /\ EndPass(r, "requeueError")
    /\ UNCHANGED <<image, boot, run, serial, limited, budget, store, history>>

\* (mutant of AfterDestroy: the label is used without the ok check)
AfterDestroy_NoLabelCheck(r) == "tdReset"

\* The label of the allocation read by Get: without it the callback logs a
\* warning and returns nil, with it the machine is reset.
AfterDestroy(r) == IF uuid[r] = NoMachine THEN "tdRelease" ELSE "tdReset"

\* (mutant of TdDestroy: the callback returns nil after Destroy)
TdDestroy_NoReset(r) ==
    /\ pc[r] = "tdDestroy"
    /\ alloc' = [alloc EXCEPT ![r] = NoAlloc]
    /\ pc' = [pc EXCEPT ![r] = "tdRelease"]
    /\ UNCHANGED <<image, boot, run, serial, limited, budget, faults, req, fin, status, machines, ml, uuid,
                   outcome, history>>

\* r.Destroy of the allocation, then the label of the copy read by Get:
\* without the label the callback ends with nil.
TdDestroy(r) ==
    /\ pc[r] = "tdDestroy"
    /\ alloc' = [alloc EXCEPT ![r] = NoAlloc]
    /\ pc' = [pc EXCEPT ![r] = AfterDestroy(r)]
    /\ UNCHANGED <<image, boot, run, serial, limited, budget, faults, req, fin, status, machines, ml, uuid,
                   outcome, history>>

\* provisioner.ResetMachine(machineUUID) is called and returns ok or not.
LogReset(r) ==
    /\ Len(resetLog[r]) < MaxResetLog
    /\ resetLog' = [resetLog EXCEPT ![r] = Append(@, uuid[r])]

TdReset(r) ==
    /\ pc[r] = "tdReset"
    /\ LogReset(r)
    /\ resetOK' = [resetOK EXCEPT ![r] = TRUE]
    /\ pc' = [pc EXCEPT ![r] = "tdRelease"]
    /\ UNCHANGED <<image, boot, run, serial, limited, budget, faults, store, ml, uuid, outcome, bound>>

TdResetFail(r) ==
    /\ Fault
    /\ pc[r] = "tdReset"
    /\ LogReset(r)
    /\ EndPass(r, "error")
    /\ UNCHANGED <<image, boot, run, serial, limited, budget, store, bound, resetOK>>

\* The callback returned nil: the runtime destroys the status and releases
\* the finalizer, and the request is gone.
TdRelease(r) ==
    /\ pc[r] = "tdRelease"
    /\ req' = [req EXCEPT ![r] = "absent"]
    /\ fin' = [fin EXCEPT ![r] = FALSE]
    /\ status' = [status EXCEPT ![r] = NoStatus]
    /\ EndPass(r, "released")
    /\ UNCHANGED <<image, boot, run, serial, limited, budget, faults, alloc, machines, history>>

\* A store call of the pass fails (I/O error): the store is unchanged and
\* the callback returns the error.
StoreCallPcs == {"rcListMachines", "rcListAllocations", "rcCreate",
                 "rcWriteStatus", "tdGet", "tdTeardown", "tdDestroy"}

\* (mutant of StoreError: a failed Create still lets the pick reach the
\* status)
StoreError_StatusSet(r) ==
    /\ Fault
    /\ pc[r] \in StoreCallPcs
    /\ EndPass(r, "error")
    /\ status' = IF pc[r] = "rcCreate"
                 THEN [status EXCEPT ![r] =
                         [exists |-> TRUE, stage |-> "PROVISIONED", id |-> uuid[r]]]
                 ELSE status
    /\ UNCHANGED <<image, boot, run, serial, limited, budget, req, fin, alloc, machines,
                   history>>

StoreError(r) ==
    /\ Fault
    /\ pc[r] \in StoreCallPcs
    /\ EndPass(r, "error")
    /\ UNCHANGED <<image, boot, run, serial, limited, budget, store, history>>

\* -------------------------------------------------- image reference
\* Omni changes the image reference (schematic id, Talos version) of the
\* running MachineRequest r.
UpdateRequest(r) ==
    /\ req[r] = "running"
    /\ rev[r] < MaxRevisions
    /\ rev' = [rev EXCEPT ![r] = @ + 1]
    /\ UNCHANGED <<rspec, boot, run, serial, limited, budget, faults, req, fin, status,
                   alloc, machines, pc, ml, uuid, outcome, history>>

\* ------------------------------------------------------- corrupt state
\* The machine uuid label of the allocation of r is lost (a write to the
\* store from outside the provider).
StripLabel(r) ==
    /\ alloc[r].exists /\ alloc[r].uuid # NoMachine
    /\ alloc' = [alloc EXCEPT ![r].uuid = NoMachine]
    /\ UNCHANGED <<image, boot, run, serial, limited, budget, faults, req, fin, status,
                   machines, pc, ml, uuid, outcome, history>>

\* ------------------------------------------------- iPXE server handler
\* The handler of a boot query, one step per store call of
\* ensureQemuMachine and one for the response; up to MaxQueries queries are
\* in flight (net/http runs each request in its own goroutine).
controller == <<run, serial, limited, budget, faults, req, fin, status, pc, ml, uuid,
                outcome, history, image>>
base == <<budget, faults, serial, limited, store, pc, ml, uuid, outcome, history,
          boot, image>>
core == <<base, aside>>
rest == <<core, listener>>

imageFactoryPXEURL == "base-url"

\* strings.HasPrefix(talosVersion, "v") and the prefixing of lines 108-111.
HasPrefixV(version) == Len(version) >= 1 /\ version[1] = "v"

\* (mutant of NormalizeVersion: the prefix is added without the check)
NormalizeVersion_AlwaysPrefix(version) == <<"v">> \o version

NormalizeVersion(version) ==
    IF HasPrefixV(version) THEN version ELSE <<"v">> \o version

\* ipxeScriptTemplate executed for allocation a.
IpxeScript(a) ==
    <<"#!ipxe", "chain --replace ", imageFactoryPXEURL, "/pxe/", a.schematicId,
      "/", NormalizeVersion(a.talosVersion), "/metal-amd64">>

Respond(k, code, contentType, body) ==
    /\ resp' = [resp EXCEPT ![q[k].id] =
                   [code |-> code, contentType |-> contentType, body |-> body]]
    /\ q' = [q EXCEPT ![k] = IdleQuery]

\* A boot query for machine id m arrives (the free handler slots are taken
\* in order).
BqReceive(k, m) ==
    /\ q[k].pc = "idle"
    /\ \A j \in Queries : j < k => q[j].pc # "idle"
    /\ qbudget > 0
    /\ qbudget' = qbudget - 1
    /\ q' = [j \in Queries |->
                IF j = k
                THEN [pc |-> "list", id |-> m, found |-> NoAlloc,
                      solo |-> \A o \in Queries : q[o].id # m, err |-> "nil"]
                ELSE IF q[j].id = m THEN [q[j] EXCEPT !.solo = FALSE] ELSE q[j]]
    /\ UNCHANGED <<controller, alloc, machines, unalloc, resp>>

\* ensureQemuMachine: the allocations labelled with the id are listed; the
\* first of the list (in id order) is returned if there is one.
BqListAllocations(k) ==
    /\ q[k].pc = "list"
    /\ LET labelled == {r \in Requests :
                           alloc[r].exists /\ alloc[r].uuid = q[k].id}
       IN  q' = [q EXCEPT ![k] =
                   IF labelled # {}
                   THEN [@ EXCEPT !.pc = "matched", !.found = alloc[Min(labelled)]]
                   ELSE [@ EXCEPT !.pc = "get"]]
    /\ UNCHANGED <<controller, alloc, machines, unalloc, resp, qbudget>>

\* (mutant of BqGet: the existing QemuMachine is not looked at, the call
\* goes on to Create)
BqGet_AlwaysCreate(k) ==
    /\ q[k].pc = "get"
    /\ q' = [q EXCEPT ![k].pc = "create"]
    /\ UNCHANGED <<controller, alloc, machines, unalloc, resp, qbudget>>

\* ensureQemuMachine: state.Get of the QemuMachine; an existing one ends
\* the call with errMachineNotAllocated.
BqGet(k) ==
    /\ q[k].pc = "get"
    /\ q' = [q EXCEPT ![k].pc =
                IF q[k].id \in machines THEN "notAllocated" ELSE "create"]
    /\ UNCHANGED <<controller, alloc, machines, unalloc, resp, qbudget>>

\* (mutant of BqCreate: the Create that finds the QemuMachine in the store
\* replaces it, the record being gone in between)
BqCreate_Replaces(k) ==
    /\ q[k].pc = "create"
    /\ IF q[k].id \in machines
       THEN /\ q' = [q EXCEPT ![k].pc = "error", ![k].err = "conflict"]
            /\ machines' = machines \ {q[k].id}
       ELSE /\ machines' = machines \cup {q[k].id}
            /\ q' = [q EXCEPT ![k].pc = "notAllocated"]
    /\ UNCHANGED <<controller, alloc, unalloc, resp, qbudget>>

\* ensureQemuMachine: state.Create of the QemuMachine, which fails when a
\* QemuMachine with the id exists by now.
BqCreate(k) ==
    /\ q[k].pc = "create"
    /\ IF q[k].id \in machines
       THEN /\ q' = [q EXCEPT ![k].pc = "error", ![k].err = "conflict"]
            /\ UNCHANGED machines
       ELSE /\ machines' = machines \cup {q[k].id}
            /\ q' = [q EXCEPT ![k].pc = "notAllocated"]
    /\ UNCHANGED <<controller, alloc, unalloc, resp, qbudget>>

\* A store call of ensureQemuMachine fails with an error other than
\* not-found.
BqStoreError(k) ==
    /\ Fault
    /\ q[k].pc \in {"list", "get", "create"}
    /\ q' = [q EXCEPT ![k].pc = "error", ![k].err = "io"]
    /\ UNCHANGED <<run, serial, limited, budget, req, fin, status, pc, ml, uuid,
                   outcome, history, image, alloc, machines, unalloc, resp,
                   qbudget>>

\* errMachineNotAllocated: the id enters the set.
BqNotAllocated(k) ==
    /\ q[k].pc = "notAllocated"
    /\ unalloc' = unalloc \cup {q[k].id}
    /\ q' = [q EXCEPT ![k].pc = "notFound"]
    /\ UNCHANGED <<qbudget, controller, alloc, machines, resp>>

\* ... and the response is 404.
BqNotFound(k) ==
    /\ q[k].pc = "notFound"
    /\ Respond(k, 404, "", <<"no pending requests, come later">>)
    /\ UNCHANGED <<qbudget, controller, alloc, machines, unalloc>>

\* (mutant of BqError: every error of ensureQemuMachine is handled like
\* errMachineNotAllocated)
BqError_AsNotAllocated(k) ==
    /\ q[k].pc = "error"
    /\ unalloc' = unalloc \cup {q[k].id}
    /\ Respond(k, 404, "", <<"no pending requests, come later">>)
    /\ UNCHANGED <<qbudget, controller, alloc, machines>>

\* handleError: the response is 500 with the generic body.
BqError(k) ==
    /\ q[k].pc = "error"
    /\ Respond(k, 500, "", <<"internal server error">>)
    /\ UNCHANGED <<qbudget, controller, alloc, machines, unalloc>>

\* (mutant of BqMatched: the allocation that is served is taken out of the
\* store)
BqMatched_Consumes(k) ==
    /\ q[k].pc = "matched"
    /\ unalloc' = unalloc \ {q[k].id}
    /\ q' = [q EXCEPT ![k].pc = "render"]
    /\ alloc' = [r \in Requests |->
                   IF alloc[r] = q[k].found THEN NoAlloc ELSE alloc[r]]
    /\ UNCHANGED <<qbudget, controller, machines, resp>>

\* An allocation was returned: the id leaves the set.
BqMatched(k) ==
    /\ q[k].pc = "matched"
    /\ unalloc' = unalloc \ {q[k].id}
    /\ q' = [q EXCEPT ![k].pc = "render"]
    /\ UNCHANGED <<qbudget, controller, alloc, machines, resp>>

\* The template is executed into the buffer, and the response is 200
\* text/plain with the buffer.
BqRender(k) ==
    /\ q[k].pc = "render"
    /\ Respond(k, 200, "text/plain", IpxeScript(q[k].found))
    /\ UNCHANGED <<qbudget, controller, alloc, machines, unalloc>>

\* The elements of IpxeScript that come from the actions of the template
\* ({{ .URL }}, {{ .SchematicID }}, {{ .TalosVersion }}): where Execute can
\* fail, the text before the action being in the buffer by then.
TemplateActions == {3, 5, 7}

\* What the client has received once Execute has failed at action p:
\* handleError has written the 500 and the generic body; the handler does
\* not return, so its Content-Type and WriteHeader(200) come after the header
\* was sent and change nothing, and the buffer is written after the body.
RenderFailure(script, p) ==
    [code |-> 500, contentType |-> "",
     body |-> <<"internal server error">> \o SubSeq(script, 1, p - 1)]

\* Execute fails at action p of the template.
BqRenderFail(k, p) ==
    /\ q[k].pc = "render"
    /\ LET out == RenderFailure(IpxeScript(q[k].found), p)
       IN  Respond(k, out.code, out.contentType, out.body)
    /\ UNCHANGED <<qbudget, controller, alloc, machines, unalloc>>

\* --------------------------------------------------------- specification
Next ==
    \/ \E r \in Requests : CreateRequest(r)
    \/ \E r \in Requests : RemoveRequest(r)
    \/ \E m \in Machines : EnsureQemuMachine(m)
    \/ \E r \in Requests : RcStart(r)
    \/ \E r \in Requests : RcListMachines(r)
    \/ \E r \in Requests : RcListAllocations(r)
    \/ \E r \in Requests : RcCreate(r)
    \/ \E r \in Requests : RcWriteStatus(r)
    \/ \E r \in Requests : TdStart(r)
    \/ \E r \in Requests : TdGet(r)
    \/ \E r \in Requests : TdTeardown(r)
    \/ \E r \in Requests : TdNotReady(r)
    \/ \E r \in Requests : TdDestroy(r)
    \/ \E r \in Requests : TdReset(r)
    \/ \E r \in Requests : TdResetFail(r)
    \/ \E r \in Requests : TdRelease(r)
    \/ \E r \in Requests : StoreError(r)

Spec == Init /\ [][Next]_vars
SpecSerial == InitSerial /\ [][Next]_vars

\* Fair scheduling: a request whose pass can take a step again and again
\* takes steps (the runtime retries failed passes and honours the requeue
\* interval).  With the finitely many faults of such a run every call
\* eventually stops failing.
Step(r) ==
    \/ RcStart(r) \/ RcListMachines(r) \/ RcListAllocations(r)
    \/ RcCreate(r) \/ RcWriteStatus(r)
    \/ TdStart(r) \/ TdGet(r) \/ TdTeardown(r) \/ TdDestroy(r)
    \/ TdReset(r) \/ TdRelease(r)

Fairness == \A r \in Requests : SF_vars(Step(r))

SpecLive == InitLive /\ [][Next]_vars /\ Fairness

\* The controller with requests whose image reference changes.
NextImage ==
    \/ Next
    \/ \E r \in Requests : UpdateRequest(r)

SpecImage == InitImage /\ [][NextImage]_vars

\* The controller on a store whose allocations can lose their label.
NextCorrupt ==
    \/ Next
    \/ \E r \in Requests : StripLabel(r)

SpecCorrupt == InitCorrupt /\ [][NextCorrupt]_vars

\* The controller over requests of which some carry another provider's id
\* or no cloud-provider-id label.
SpecUnlabelled == InitUnlabelled /\ [][Next]_vars

\* The controller together with the handler of the iPXE server, step by
\* step.
NextBoot ==
    \/ \E r \in Requests : CreateRequest(r)
    \/ \E r \in Requests : RemoveRequest(r)
    \/ \E r \in Requests : RcStart(r)
    \/ \E r \in Requests : RcListMachines(r)
    \/ \E r \in Requests : RcListAllocations(r)
    \/ \E r \in Requests : RcCreate(r)
    \/ \E r \in Requests : RcWriteStatus(r)
    \/ \E r \in Requests : TdStart(r)
    \/ \E r \in Requests : TdGet(r)
    \/ \E r \in Requests : TdTeardown(r)
    \/ \E r \in Requests : TdNotReady(r)
    \/ \E r \in Requests : TdDestroy(r)
    \/ \E r \in Requests : TdReset(r)
    \/ \E r \in Requests : TdResetFail(r)
    \/ \E r \in Requests : TdRelease(r)
    \/ \E r \in Requests : StoreError(r)
    \/ \E k \in Queries, m \in Machines : BqReceive(k, m)
    \/ \E k \in Queries : BqListAllocations(k)
    \/ \E k \in Queries : BqGet(k)
    \/ \E k \in Queries : BqCreate(k)
    \/ \E k \in Queries : BqStoreError(k)
    \/ \E k \in Queries : BqNotAllocated(k)
    \/ \E k \in Queries : BqNotFound(k)
    \/ \E k \in Queries : BqError(k)
    \/ \E k \in Queries : BqMatched(k)
    \/ \E k \in Queries : BqRender(k)

SpecBoot == InitBoot /\ [][NextBoot]_vars

\* The same with executions of the script template that fail.
NextRender ==
    \/ NextBoot
    \/ \E k \in Queries, p \in TemplateActions : BqRenderFail(k, p)

SpecRender == InitRender /\ [][NextRender]_vars

\* ------------------------------------------------------- ResetMachine
\* Provisioner.ResetMachine for one machine, one step per call it makes to
\* the file system and to the machine's management endpoint.
InitResetMachine ==
    /\ serial = TRUE /\ limited = FALSE
    /\ budget = 0 /\ faults = MaxFaults /\ InitStore
    /\ qbudget = 0
    /\ task = [t \in Tasks |-> "running"]
    /\ ctxDone = FALSE
    /\ main = "runtime"
    /\ runErr = "none"
    /\ InitListener /\ InitPool /\ InitLabel /\ InitClear /\ InitBmc
    /\ rm \in {IdleReset(conf) : conf \in LaunchConfs}

notRm == <<base, sup, listener, pool, label, clr, bmc>>

\* What the reboot call can come to: the endpoint answers 200 or another
\* status, the 5 second timeout of the call runs out, or the call fails
\* on the network because the endpoint is gone.
RebootOutcomes == {"status200", "status500", "timeout", "gone"}

Return(err) == [rm EXCEPT !.pc = "idle", !.err = err]

\* The finalizer-removal callback calls ResetMachine (line 526).
RmCall ==
    /\ rm.pc = "idle" /\ rm.calls < MaxResetCalls
    /\ rm' = [rm EXCEPT !.pc = "read", !.calls = @ + 1, !.reboot = "none",
                         !.err = "none"]
    /\ UNCHANGED notRm

\* readMachineLaunchConfig: a missing file ends the call with nil, another
\* error with that error; with no disk path the wipe is skipped.
RmRead ==
    /\ rm.pc = "read"
    /\ rm' = CASE rm.conf.state = "missing" -> Return("nil")
              [] rm.conf.state = "unreadable" -> Return("error")
              [] rm.conf.disks > 0 -> [rm EXCEPT !.pc = "truncateZero"]
              [] OTHER -> [rm EXCEPT !.pc = "gateway"]
    /\ UNCHANGED notRm

\* os.Truncate(diskFile, 0) on the first disk path.
RmTruncateZero(ok) ==
    /\ rm.pc = "truncateZero"
    /\ rm' = IF ok
             THEN [rm EXCEPT !.pc = "truncateSize",
                             !.disk[1] = [size |-> 0, data |-> FALSE]]
             ELSE Return("error")
    /\ UNCHANGED notRm

\* os.Truncate(diskFile, diskSize).
RmTruncateSize(ok) ==
    /\ rm.pc = "truncateSize"
    /\ rm' = IF ok
             THEN [rm EXCEPT !.pc = "gateway",
                             !.disk[1] = [size |-> diskSize, data |-> FALSE]]
             ELSE Return("error")
    /\ UNCHANGED notRm

\* Without a gateway address the call ends with nil, no reboot made.
RmGateway ==
    /\ rm.pc = "gateway"
    /\ rm' = IF rm.conf.gateways = 0
             THEN Return("nil") ELSE [rm EXCEPT !.pc = "reboot"]
    /\ UNCHANGED notRm

\* What ResetMachine returns for an outcome of the reboot call: an error
\* of http.DefaultClient.Do is returned, and so is a status other than 200.
RebootResult_StatusIgnored(res) ==
    IF res \in {"status200", "status500"} THEN "nil" ELSE "error"

RebootResult(res) == IF res = "status200" THEN "nil" ELSE "error"

\* The POST to the reboot endpoint under the 5 second timeout.
RmReboot(res) ==
    /\ rm.pc = "reboot"
    /\ rm' = [Return(RebootResult(res)) EXCEPT !.reboot = res]
    /\ UNCHANGED notRm

\* Between two calls: the machine runs and writes to its disks.
RmMachineRuns ==
    /\ rm.pc = "idle" /\ rm.calls > 0
    /\ \E d \in 1..MaxDisks : ~rm.disk[d].data
    /\ rm' = [rm EXCEPT !.disk = [d \in 1..MaxDisks |-> [@[d] EXCEPT !.data = TRUE]]]
    /\ UNCHANGED notRm

NextResetMachine ==
    \/ RmCall
    \/ RmRead
    \/ \E ok \in BOOLEAN : RmTruncateZero(ok)
    \/ \E ok \in BOOLEAN : RmTruncateSize(ok)
    \/ RmGateway
    \/ \E res \in RebootOutcomes : RmReboot(res)
    \/ RmMachineRuns

SpecResetMachine == InitResetMachine /\ [][NextResetMachine]_vars

\* ------------------------------------------------------- Provider.Run
\* Run from the point where the three goroutines of the errgroup are
\* started (watchSysVersion, the iPXE server, provisioner.Run); the calling
\* goroutine goes on to register the resources, create the runtime,
\* register the controller and run the runtime (the reconcile loop).
SetupPcs == <<"registerMachine", "registerAllocation", "newRuntime",
              "registerController", "runtime">>

InitRun ==
    /\ serial = TRUE /\ limited = FALSE
    /\ budget = 0 /\ faults = MaxFaults /\ InitStore
    /\ qbudget = 0
    /\ task = [t \in Tasks |-> IF t = "loop" THEN "unstarted" ELSE "running"]
    /\ ctxDone = FALSE
    /\ main = SetupPcs[1]
    /\ runErr = "none"
    /\ InitExt


\* A setup call of the calling goroutine succeeds; after the last one
\* cosiRuntime.Run is entered.
Setup(i) ==
    /\ i < Len(SetupPcs) /\ main = SetupPcs[i]
    /\ main' = SetupPcs[i + 1]
    /\ task' = IF SetupPcs[i + 1] = "runtime"
               THEN [task EXCEPT !["loop"] = "running"] ELSE task
    /\ UNCHANGED <<ctxDone, runErr, rest>>

\* A setup call fails: Run returns the error at once (the deferred Close
\* of the client runs, the errgroup is neither cancelled nor waited for).
SetupFail(i) ==
    /\ i < Len(SetupPcs) /\ main = SetupPcs[i]
    /\ main' = "returned"
    /\ runErr' = "error"
    /\ UNCHANGED <<task, ctxDone, rest>>

\* cosiRuntime.Run returns an error: Run returns "failed to run runtime"
\* at once.
RuntimeFail ==
    /\ main = "runtime"
    /\ task' = [task EXCEPT !["loop"] = "failed"]
    /\ main' = "returned"
    /\ runErr' = "error"
    /\ UNCHANGED <<ctxDone, rest>>

\* cosiRuntime.Run returns nil once its context is cancelled; Run goes on
\* to eg.Wait().
RuntimeStopped ==
    /\ main = "runtime" /\ ctxDone
    /\ task' = [task EXCEPT !["loop"] = "done"]
    /\ main' = "wait"
    /\ UNCHANGED <<ctxDone, runErr, rest>>

Terminated(t) == task[t] \in {"done", "failed"}

\* eg.Wait() returns when the three goroutines have returned, with the
\* first error among them if there is one.
Wait ==
    /\ main = "wait"
    /\ \A t \in Tasks : Terminated(t)
    /\ main' = "returned"
    /\ runErr' = IF \E t \in Tasks : task[t] = "failed" THEN "error" ELSE "nil"
    /\ ctxDone' = TRUE
    /\ UNCHANGED <<task, rest>>

\* The connections with a query in flight.
Inflight == {c \in Conns : conn[c] = "active"}

\* A goroutine of the errgroup returns an error (the watch cannot be set
\* up or delivers an errored event, ListenAndServe fails before a query is
\* served, the pool cannot be loaded or created): the errgroup cancels its
\* context.
TaskFail(t) ==
    /\ t \in Tasks \ {"loop"} /\ task[t] = "running"
    /\ t = "ipxe" => Inflight = {}
    /\ task' = [task EXCEPT ![t] = "failed"]
    /\ listening' = IF t = "ipxe" THEN FALSE ELSE listening
    /\ ctxDone' = TRUE
    /\ UNCHANGED <<main, runErr, core, conn>>

\* provisioner.Run returns nil: right after it loaded an existing pool, or
\* on the cancelled context after it created one.
PoolDone ==
    /\ task["pool"] = "running"
    /\ task' = [task EXCEPT !["pool"] = "done"]
    /\ UNCHANGED <<ctxDone, main, runErr, rest>>

\* watchSysVersion returns nil on the cancelled context.
WatchStopped ==
    /\ task["watch"] = "running" /\ ctxDone
    /\ task' = [task EXCEPT !["watch"] = "done"]
    /\ UNCHANGED <<ctxDone, main, runErr, rest>>

\* The listener accepts a connection and its handler starts.
Accept(c) ==
    /\ task["ipxe"] = "running" /\ listening
    /\ conn[c] = "none" /\ \A b \in Conns : b < c => conn[b] # "none"
    /\ conn' = [conn EXCEPT ![c] = "active"]
    /\ UNCHANGED <<task, ctxDone, main, runErr, core, listening>>

\* A handler has written its response; its connection is idle and closed.
Finish(c) ==
    /\ conn[c] = "active"
    /\ conn' = [conn EXCEPT ![c] = "closed"]
    /\ UNCHANGED <<task, ctxDone, main, runErr, core, listening>>

\* The iPXE server calls httpServer.Shutdown on the cancelled context: the
\* listener is closed (ListenAndServe returns ErrServerClosed) ...
IpxeDrain ==
    /\ task["ipxe"] = "running" /\ ctxDone
    /\ task' = [task EXCEPT !["ipxe"] = "draining"]
    /\ listening' = FALSE
    /\ UNCHANGED <<ctxDone, main, runErr, core, conn>>

\* ... and Shutdown returns nil once no connection has a query in flight,
\* or the error of its context when the 10 seconds are over before that:
\* Server.Run returns "failed to shutdown iPXE server", the connections
\* are left as they are (httpServer.Close is not called).
IpxeShutdown(ok) ==
    /\ task["ipxe"] = "draining"
    /\ ok <=> Inflight = {}
    /\ task' = [task EXCEPT !["ipxe"] = IF ok THEN "done" ELSE "failed"]
    /\ UNCHANGED <<ctxDone, main, runErr, core, listener>>

\* The context handed to Run is cancelled by the caller.
ParentCancel ==
    /\ ~ctxDone /\ runErr = "none"
    /\ ctxDone' = TRUE
    /\ UNCHANGED <<task, main, runErr, rest>>

NextRun ==
    \/ \E i \in 1..Len(SetupPcs) : Setup(i)
    \/ \E i \in 1..Len(SetupPcs) : SetupFail(i)
    \/ RuntimeFail
    \/ RuntimeStopped
    \/ Wait
    \/ \E t \in Tasks : TaskFail(t)
    \/ PoolDone
    \/ WatchStopped
    \/ \E c \in Conns : Accept(c)
    \/ \E c \in Conns : Finish(c)
    \/ IpxeDrain
    \/ \E ok \in BOOLEAN : IpxeShutdown(ok)
    \/ ParentCancel

SpecRun == InitRun /\ [][NextRun]_vars

\* --------------------------------------------------- Provider.clearState
\* The start of Provider.Run up to the errgroup: with the clear flag set,
\* clearState, one step per call to the provisioner and to the store.
InitClearState ==
    /\ serial = TRUE /\ limited = FALSE
    /\ budget = 0 /\ faults = MaxFaults /\ InitStore
    /\ qbudget = 0
    /\ task = [t \in Tasks |-> "unstarted"]
    /\ ctxDone = FALSE
    /\ main = "clear"
    /\ runErr = "none"
    /\ InitListener /\ InitReset /\ InitPool /\ InitLabel /\ InitBmc
    /\ clr \in {NewClear(clear, cluster, present) :
                   clear \in BOOLEAN, cluster \in {"none", "unreadable", "loaded"},
                   present \in SUBSET Records}

onlyClr == <<base, sup, listener, rm, pool, label, bmc>>

ClearReturn(err) == [clr EXCEPT !.pc = "returned", !.err = err]

\* Line 89: clearState is called when the clear flag is set.
ClrBegin ==
    /\ main = "clear" /\ clr.pc = "begin"
    /\ clr' = IF clr.clear THEN [clr EXCEPT !.pc = "pool"] ELSE ClearReturn("nil")
    /\ UNCHANGED onlyClr

\* What qemuProvisioner.Destroy can come to.
DestroyOutcomes == {"nil", "no such network interface", "error"}

\* Provisioner.ClearState: no cluster in the state directory is nil, a
\* cluster that cannot be loaded an error; Destroy failing with "no such
\* network interface" is nil, another error of it is returned.
ClearStateResult(cluster, destroyed) ==
    CASE cluster = "none" -> "nil"
      [] cluster = "unreadable" -> "error"
      [] OTHER -> IF destroyed = "error" THEN "error" ELSE "nil"

\* Line 190: the pool is destroyed first, its error ends clearState.
ClrPool(destroyed) ==
    /\ clr.pc = "pool"
    /\ LET res == ClearStateResult(clr.cluster, destroyed)
       IN clr' = IF res = "nil"
                 THEN [clr EXCEPT !.pc = "list", !.poolErr = "nil",
                                  !.cluster = IF @ = "loaded" THEN "destroyed" ELSE @]
                 ELSE [ClearReturn("error") EXCEPT !.poolErr = "error"]
    /\ UNCHANGED onlyClr

\* The items of the list of type k, in the order of their ids.
RECURSIVE Items(_, _)
Items(k, n) ==
    IF n > MaxRecords THEN <<>>
    ELSE (IF clr.rec[<<k, n>>] = "present" THEN <<(<<k, n>>)>> ELSE <<>>)
         \o Items(k, n + 1)

\* Lines 194-207: the three st.List calls, an error of one ends clearState.
ClrList(ok) ==
    /\ clr.pc = "list"
    /\ clr' = IF ~ok THEN ClearReturn("error")
              ELSE [clr EXCEPT !.listed = @ + 1,
                               !.todo = @ \o Items(clr.listed + 1, 1),
                               !.pc = IF clr.listed + 1 = Len(ListOrder)
                                      THEN "records" ELSE "list"]
    /\ UNCHANGED onlyClr

\* What the Get and the Destroy of one item can come to.
ItemOutcomes == {"destroyed", "getFailed", "destroyFailed"}

ClrItem_StopsAtFailure(res) ==
    /\ clr.pc = "records" /\ clr.todo # <<>>
    /\ clr' = IF res = "destroyed"
              THEN [clr EXCEPT !.todo = Tail(@), !.rec[Head(clr.todo)] = res]
              ELSE [ClearReturn("error") EXCEPT !.rec[Head(clr.todo)] = res,
                                                !.errs = @ + 1]
    /\ UNCHANGED onlyClr

\* Lines 212-227: one item of the loop; an error of Get or of Destroy is
\* appended to errs and the loop goes on with the next item.
ClrItem(res) ==
    /\ clr.pc = "records" /\ clr.todo # <<>>
    /\ clr' = [clr EXCEPT !.todo = Tail(@), !.rec[Head(clr.todo)] = res,
                          !.errs = IF res = "destroyed" THEN @ ELSE @ + 1]
    /\ UNCHANGED onlyClr

\* Line 230: return errs.
ClrReturn ==
    /\ clr.pc = "records" /\ clr.todo = <<>>
    /\ clr' = ClearReturn(IF clr.errs = 0 THEN "nil" ELSE "error")
    /\ UNCHANGED onlyClr

\* Lines 90-92: an error of clearState is returned by Run.
ClrAbort ==
    /\ main = "clear" /\ clr.pc = "returned" /\ clr.err = "error"
    /\ main' = "returned"
    /\ runErr' = "error"
    /\ UNCHANGED <<task, ctxDone, rest>>

\* Lines 95-119: the errgroup and its three goroutines are started.
ClrGo ==
    /\ main = "clear" /\ clr.pc = "returned" /\ clr.err = "nil"
    /\ main' = SetupPcs[1]
    /\ task' = [t \in Tasks |-> IF t = "loop" THEN "unstarted" ELSE "running"]
    /\ UNCHANGED <<ctxDone, runErr, rest>>

NextClearState ==
    \/ ClrBegin
    \/ \E destroyed \in DestroyOutcomes : ClrPool(destroyed)
    \/ \E ok \in BOOLEAN : ClrList(ok)
    \/ \E res \in ItemOutcomes : ClrItem(res)
    \/ ClrReturn
    \/ ClrAbort
    \/ ClrGo

SpecClearState == InitClearState /\ [][NextClearState]_vars

\* --------------------------------------------------- AttemptBMCUserSetup
InitUserSetup ==
    /\ serial = TRUE /\ limited = FALSE
    /\ budget = 0 /\ faults = MaxFaults /\ InitStore
    /\ qbudget = 0
    /\ task = [t \in Tasks |-> "running"]
    /\ ctxDone = FALSE
    /\ main = "runtime"
    /\ runErr = "none"
    /\ InitListener /\ InitReset /\ InitPool /\ InitLabel /\ InitClear
    /\ bmc \in {NewSetup(username, byte, users) :
                   username \in Usernames, byte \in SummaryBytes,
                   users \in [Slots -> SlotStates]}

onlyBmc == <<base, sup, listener, rm, pool, label, clr>>

BmcReturn(err) == [bmc EXCEPT !.pc = "returned", !.err = err]

\* GetUserSummary; maxUsers is the low five bits of the MaxUsers byte and
\* the loop starts at slot 2.
BmcSummary(ok) ==
    /\ bmc.pc = "summary"
    /\ bmc' = IF ok THEN [bmc EXCEPT !.pc = "scan", !.i = 2] ELSE BmcReturn("error")
    /\ UNCHANGED onlyBmc

maxUsers == bmc.MaxUsers % 32

\* strings.TrimSpace: the blanks at both ends are cut off.
RECURSIVE TrimSpace(_)
TrimSpace(name) ==
    IF name = <<>> THEN name
    ELSE IF Head(name) = " " THEN TrimSpace(Tail(name))
    ELSE IF name[Len(name)] = " " THEN TrimSpace(SubSeq(name, 1, Len(name) - 1))
    ELSE name

EmptyUser_NoTrim(name) == name = <<>> \/ name = <<"(Empty User)">>

\* The names the loop takes for an empty slot.
EmptyUser(name) == name = <<>> \/ TrimSpace(name) = <<"(Empty User)">>

\* One round of the loop over the slots 2..maxUsers.
BmcSlot ==
    /\ bmc.pc = "scan" /\ bmc.i <= maxUsers
    /\ LET user == bmc.users[bmc.i]
       IN bmc' =
            CASE ~user.used ->
                   [bmc EXCEPT !.i = @ + 1,
                               !.userID = IF @ = 0 THEN bmc.i ELSE @]
              [] user.used /\ user.name = bmc.username ->
                   [bmc EXCEPT !.exists = TRUE, !.userID = bmc.i, !.pc = "selected"]
              [] OTHER ->
                   [bmc EXCEPT !.i = @ + 1,
                               !.userID = IF EmptyUser(user.name) /\ @ = 0
                                          THEN bmc.i ELSE @]
    /\ UNCHANGED onlyBmc

\* The loop ran out of slots.
BmcScanned ==
    /\ bmc.pc = "scan" /\ bmc.i > maxUsers
    /\ bmc' = [bmc EXCEPT !.pc = "selected"]
    /\ UNCHANGED onlyBmc

\* Lines 103-114: no slot is an error; SetUserName unless the user exists.
BmcSetName(ok) ==
    /\ bmc.pc = "selected"
    /\ bmc' = CASE bmc.userID = 0 -> BmcReturn("no slot available for user")
               [] bmc.exists -> [bmc EXCEPT !.pc = "pass"]
               [] ok -> [bmc EXCEPT !.pc = "pass",
                                    !.users[bmc.userID].used = TRUE,
                                    !.users[bmc.userID].name = bmc.username]
               [] OTHER -> BmcReturn("error")
    /\ UNCHANGED onlyBmc

\* genPass16 and SetUserPass.
BmcSetPass(ok) ==
    /\ bmc.pc = "pass"
    /\ bmc' = IF ok THEN [bmc EXCEPT !.pc = "access", !.users[bmc.userID].pass = "new"]
              ELSE BmcReturn("error")
    /\ UNCHANGED onlyBmc

\* SetUserAccess makes the user an administrator.
BmcSetAccess(ok) ==
    /\ bmc.pc = "access"
    /\ bmc' = IF ok THEN [bmc EXCEPT !.pc = "enable", !.users[bmc.userID].admin = TRUE]
              ELSE BmcReturn("error")
    /\ UNCHANGED onlyBmc

\* EnableUser, then the password is returned.
BmcEnable(ok) ==
    /\ bmc.pc = "enable"
    /\ bmc' = IF ok THEN [BmcReturn("nil") EXCEPT !.users[bmc.userID].enabled = TRUE]
              ELSE BmcReturn("error")
    /\ UNCHANGED onlyBmc

NextUserSetup ==
    \/ \E ok \in BOOLEAN : BmcSummary(ok)
    \/ BmcSlot
    \/ BmcScanned
    \/ \E ok \in BOOLEAN : BmcSetName(ok)
    \/ \E ok \in BOOLEAN : BmcSetPass(ok)
    \/ \E ok \in BOOLEAN : BmcSetAccess(ok)
    \/ \E ok \in BOOLEAN : BmcEnable(ok)

SpecUserSetup == InitUserSetup /\ [][NextUserSetup]_vars

\* ------------------------------------------------------- Provisioner.Run
InitRunPool ==
    /\ serial = TRUE /\ limited = FALSE
    /\ budget = 0 /\ faults = MaxFaults /\ InitStore
    /\ qbudget = 0
    /\ task = [t \in Tasks |-> "running"]
    /\ ctxDone = FALSE
    /\ main = "runtime"
    /\ runErr = "none"
    /\ InitListener /\ InitReset /\ InitLabel /\ InitClear /\ InitBmc
    /\ pool \in {NewPool(cidr, n, e) :
                    cidr \in Subnets, n \in 0..MaxPoolSize, e \in ExistingPools}

notPool == <<base, sup, listener, rm, label, clr, bmc>>

NoAddr == -1

\* netip.Prefix.Contains: the address masked to the prefix length is the
\* masked address of the prefix.
Contains(cidr, ip) ==
    /\ ip # NoAddr
    /\ ip \div 2^cidr.bits = cidr.addr \div 2^cidr.bits

NthIPInNetwork_Unchecked(cidr, n) == cidr.addr + n

\* sideronet.NthIPInNetwork: n times the next address after the prefix's
\* address, an error when the prefix does not contain it.
NthIPInNetwork(cidr, n) ==
    IF Contains(cidr, cidr.addr + n) THEN cidr.addr + n ELSE NoAddr

PoolReturn(err) == [pool EXCEPT !.pc = "returned", !.err = err]

\* Line 115: the gateway address.
PoolGateway ==
    /\ pool.pc = "gateway"
    /\ LET ip == NthIPInNetwork(pool.subnetCIDR, 1)
       IN pool' = IF ip = NoAddr THEN PoolReturn("error")
                  ELSE [pool EXCEPT !.pc = "reflect", !.gatewayAddr = ip]
    /\ UNCHANGED notPool

PoolReflect_Resizes ==
    /\ pool.pc = "reflect"
    /\ pool' = CASE pool.existing.state = "unreadable" -> PoolReturn("error")
                [] /\ pool.existing.state = "loaded"
                   /\ pool.existing.nodes = pool.numMachines -> PoolReturn("nil")
                [] OTHER -> [pool EXCEPT !.pc = "nodes"]
    /\ UNCHANGED notPool

\* Reflect: an existing cluster ends Run with nil whatever its size, an
\* error other than os.ErrNotExist ends it with an error.
PoolReflect ==
    /\ pool.pc = "reflect"
    /\ pool' = CASE pool.existing.state = "none" -> [pool EXCEPT !.pc = "nodes"]
                [] pool.existing.state = "unreadable" -> PoolReturn("error")
                [] OTHER -> PoolReturn("nil")
    /\ UNCHANGED notPool

\* One round of the loop over range numMachines, i == Len(pool.nodes).
PoolNode ==
    /\ pool.pc = "nodes" /\ Len(pool.nodes) < pool.numMachines
    /\ LET ip == NthIPInNetwork(pool.subnetCIDR, Len(pool.nodes) + 2)
       IN pool' = IF ip = NoAddr THEN PoolReturn("error")
                  ELSE [pool EXCEPT !.nodes = Append(@, ip)]
    /\ UNCHANGED notPool

\* qemuProvisioner.Create with the cluster request, after the loop.
PoolCreate(ok) ==
    /\ pool.pc = "nodes" /\ Len(pool.nodes) = pool.numMachines
    /\ pool' = IF ok
               THEN [pool EXCEPT !.pc = "blocked",
                        !.created = Append(@, [GatewayAddrs |-> pool.gatewayAddr,
                                               Nodes |-> pool.nodes])]
               ELSE PoolReturn("error")
    /\ UNCHANGED notPool

\* <-ctx.Done(), then return nil.
PoolUnblock ==
    /\ pool.pc = "blocked" /\ ctxDone
    /\ pool' = PoolReturn("nil")
    /\ UNCHANGED notPool

NextRunPool ==
    \/ PoolGateway
    \/ PoolReflect
    \/ PoolNode
    \/ \E ok \in BOOLEAN : PoolCreate(ok)
    \/ PoolUnblock
    \/ ParentCancel

SpecRunPool == InitRunPool /\ [][NextRunPool]_vars

TypeOK ==
    /\ serial \in BOOLEAN
    /\ limited \in BOOLEAN
    /\ faults \in 0..MaxFaults
    /\ budget \in 0..(MaxCreations + MaxConcurrent + MaxLive)
    /\ req \in [Requests -> {"absent", "running", "tearingDown"}]
    /\ fin \in [Requests -> BOOLEAN]
    /\ \A r \in Requests :
         /\ status[r].stage \in {"UNKNOWN", "PROVISIONING", "PROVISIONED"}
         /\ status[r].id \in Machines \cup {NoMachine}
         /\ alloc[r].uuid \in Machines \cup {NoMachine}
    /\ machines \subseteq Machines
    /\ rev \in [Requests -> 0..MaxRevisions]

\* ================================================================ claims
HasAlloc(r) == alloc[r].exists
Labelled(r, m) == alloc[r].exists /\ alloc[r].uuid = m
Provisioned(r, m) ==
    status[r].exists /\ status[r].stage = "PROVISIONED" /\ status[r].id = m
ProvisionedNext(r, m) ==
    status'[r].exists /\ status'[r].stage = "PROVISIONED" /\ status'[r].id = m
Released(r) == req[r] = "absent" /\ outcome[r] = "released"
Free(m) == m \in machines /\ \A r \in Requests : ~Labelled(r, m)

\* C1: in every reachable state of an interleaved run no two allocations
\* carry the same machine uuid label.
C1_OneAllocationPerMachine ==
    \A r1, r2 \in Requests :
        (r1 # r2 /\ HasAlloc(r1) /\ HasAlloc(r2)) => alloc[r1].uuid # alloc[r2].uuid

\* C2 as claimed: in every reachable state an allocation of r implies that
\* the status of r is PROVISIONED with the id of the allocation's label.
C2_AllocationImpliesProvisioned ==
    \A r \in Requests : HasAlloc(r) => Provisioned(r, alloc[r].uuid)

\* C2 amended: in every reachable state, if r has an allocation and the
\* status of r has stage PROVISIONED, then the id of the status is the
\* allocation's label (between the creation of the allocation and a
\* persisted status write the stage is not yet PROVISIONED).
C2_ProvisionedMatchesAllocation ==
    \A r \in Requests :
        (HasAlloc(r) /\ status[r].exists /\ status[r].stage = "PROVISIONED")
            => status[r].id = alloc[r].uuid

\* C2 witness: a request with an allocation whose status write has been
\* persisted, while another request has an allocation and no status yet.
C2_Witness ==
    \E r, o \in Requests :
        /\ HasAlloc(r) /\ Provisioned(r, alloc[r].uuid)
        /\ HasAlloc(o) /\ ~status[o].exists

\* C3: whenever the allocation of r is labelled with a listed machine M,
\* findMachineUUID of r on the store returns M with isAllocated = TRUE.
C3_RematchReturnsBoundMachine ==
    \A r \in Requests :
        (HasAlloc(r) /\ alloc[r].uuid \in machines) =>
            FindMachineUUID(machines, alloc, r) =
                [machineUUID |-> alloc[r].uuid, isAllocated |-> TRUE, err |-> "nil"]

\* C4: whenever the finalizer of a request that had an allocation is
\* released, the allocation is destroyed and a ResetMachine call of this
\* teardown has succeeded.
C4_ReleaseOnlyAfterReset ==
    [][\A r \in Requests :
          (req[r] = "tearingDown" /\ req'[r] = "absent" /\ bound[r] # NoMachine)
              => (~HasAlloc(r) /\ resetOK[r])]_vars
\* C5: when the teardown of a request
\* that had an allocation labelled M has released the finalizer, the
\* allocation is gone and the ResetMachine calls of the whole teardown are
\* exactly one call, for M.
C5_ExactlyOneReset ==
    \A r \in Requests :
        (Released(r) /\ bound[r] # NoMachine)
            => (~HasAlloc(r) /\ resetLog[r] = <<bound[r]>>)

\* C5 witness: a released request that had an allocation and whose first
\* teardown pass ended with a failed reset (the release came in a later pass).
C5_Witness ==
    \E r \in Requests :
        Released(r) /\ bound[r] # NoMachine /\ ~resetOK[r] /\ resetLog[r] = <<bound[r]>>

\* C6: a teardown pass whose lookup answers that there is no allocation
\* (the lookup itself not failing) goes straight to
\* the release of the finalizer, and neither of its two steps changes an
\* allocation, the machines or the resets; a released request that never
\* had an allocation has no reset.
C6_Steps ==
    \A r \in Requests :
        /\ (pc[r] = "tdGet" /\ ~HasAlloc(r) /\ pc'[r] # "tdGet"
                /\ outcome'[r] # "error")
             => (pc'[r] = "tdRelease" /\ UNCHANGED <<alloc, machines, resetLog>>)
        /\ (pc[r] = "tdRelease" /\ uuid[r] = NoMachine /\ pc'[r] # "tdRelease")
             => (req'[r] = "absent" /\ ~fin'[r] /\ outcome'[r] = "released"
                 /\ UNCHANGED <<alloc, machines, resetLog>>)

C6_NoAllocationTeardown ==
    /\ [](\A r \in Requests :
            (Released(r) /\ bound[r] = NoMachine) => (resetLog[r] = <<>> /\ ~HasAlloc(r)))
    /\ [][C6_Steps]_vars

\* C6 witness: a request that never had an allocation has been released
\* while another request holds an allocation.
C6_Witness ==
    \E r, o \in Requests :
        Released(r) /\ bound[r] = NoMachine /\ HasAlloc(o)
\* C7 as claimed: two consecutive calls of findMachineUUID for a running
\* request on the same store return the same machine, the second with
\* isAllocated = TRUE.
C7_SecondCallAlreadyBound ==
    \A r \in Requests :
        LET f1 == FindMachineUUID(machines, alloc, r)
            f2 == FindMachineUUID(machines, alloc, r)
        IN  (req[r] = "running" /\ f1.err = "nil")
                => (f2.machineUUID = f1.machineUUID /\ f2.isAllocated)

\* C7 amended: when the first call picks a machine for a request without
\* allocation and the only store change before the second call is the
\* creation of the request's allocation labelled with that pick, the second
\* call returns the same machine with isAllocated = TRUE.
Bind(al, r, m) == [al EXCEPT ![r] = NewAllocation(r, m)]

C7_SecondCallAfterBind ==
    \A r \in Requests :
        LET f1 == FindMachineUUID(machines, alloc, r)
            f2 == FindMachineUUID(machines, Bind(alloc, r, f1.machineUUID), r)
        IN  (f1.err = "nil" /\ ~f1.isAllocated /\ ~HasAlloc(r))
                => f2 = [machineUUID |-> f1.machineUUID, isAllocated |-> TRUE,
                         err |-> "nil"]

\* C7 witness: a pass has bound the pick of its call (the status is not yet
\* written), another machine is free, and a second call on the store now
\* returns the pick as already allocated.
C7_Witness ==
    \E r \in Requests :
        /\ pc[r] = "rcWriteStatus" /\ Labelled(r, uuid[r])
        /\ \E m \in Machines : Free(m)
        /\ FindMachineUUID(machines, alloc, r) =
               [machineUUID |-> uuid[r], isAllocated |-> TRUE, err |-> "nil"]

\* C8: a reconcile pass over a request that has an allocation labelled M
\* and no PROVISIONED status yet (the status write of the creating pass was
\* not persisted) does not end at the creation of an allocation, creates
\* none, does not end exhausted, and its status write sets PROVISIONED, M.
C8_RecoversAfterLostStatusWrite ==
    [][\A r \in Requests :
          (/\ HasAlloc(r)
           /\ ~(status[r].exists /\ status[r].stage = "PROVISIONED")
           /\ pc[r] \in {"rcCreate", "rcWriteStatus"}
           /\ pc'[r] = "idle")
              => (/\ pc[r] = "rcWriteStatus"
                  /\ alloc' = alloc
                  /\ outcome'[r] # "requeue"
                  /\ (outcome'[r] = "ok" => ProvisionedNext(r, alloc[r].uuid)))]_vars

\* C9: with 2 registered machines, both taken, and 3 running requests whose
\* passes (run one at a time) have all ended without error, exactly two
\* requests are PROVISIONED on distinct machines and the third is
\* PROVISIONING and requeued; the next pass of a PROVISIONING request that
\* lists a free machine picks a free machine, which is still free when the
\* allocation is created, labels the allocation with it and writes
\* PROVISIONED with its id.
LiveRequests == {r \in Requests : req[r] = "running"}
Settled(r) == pc[r] = "idle" /\ outcome[r] \in {"ok", "requeue"}

C9_Exhaustion ==
    (/\ Cardinality(machines) = 2
     /\ Cardinality(LiveRequests) = 3
     /\ \A r \in Requests \ LiveRequests : ~HasAlloc(r)
     /\ \A r \in LiveRequests : Settled(r)
     /\ \A m \in machines : ~Free(m))
    => \E r1, r2 \in LiveRequests :
         /\ r1 # r2
         /\ \E m1, m2 \in machines :
              /\ m1 # m2
              /\ Provisioned(r1, m1) /\ Labelled(r1, m1)
              /\ Provisioned(r2, m2) /\ Labelled(r2, m2)
         /\ \A r3 \in LiveRequests \ {r1, r2} :
              /\ status[r3].exists /\ status[r3].stage = "PROVISIONING"
              /\ outcome[r3] = "requeue" /\ ~HasAlloc(r3)

C9_PickStaysFree ==
    \A r \in Requests : (pc[r] = "rcCreate" /\ ~HasAlloc(r)) => Free(uuid[r])

C9_RecoverySteps ==
    \A r \in Requests :
        /\ (/\ pc[r] = "rcListAllocations" /\ ~HasAlloc(r)
            /\ status[r].stage = "PROVISIONING"
            /\ {m \in ml[r] : Free(m)} # {}
            /\ pc'[r] \notin {"rcListAllocations", "idle"})
             => (pc'[r] = "rcCreate" /\ uuid'[r] \in {m \in ml[r] : Free(m)})
        /\ (pc[r] = "rcCreate" /\ ~HasAlloc(r) /\ pc'[r] = "rcWriteStatus")
             => (alloc'[r].exists /\ alloc'[r].uuid = uuid[r])
        /\ (pc[r] = "rcWriteStatus" /\ Labelled(r, uuid[r]) /\ pc'[r] = "idle"
                /\ outcome'[r] # "error")
             => (ProvisionedNext(r, uuid[r]) /\ outcome'[r] = "ok")

C9_ExhaustionThenRecovery ==
    /\ []C9_Exhaustion
    /\ []C9_PickStaysFree
    /\ [][C9_RecoverySteps]_vars

\* C9 witness: 2 registered machines, request r1 was bound to machine m, is
\* released and m was reset; r2 is running and PROVISIONED on the other
\* machine; r3, still PROVISIONING from its exhausted pass, has just been
\* bound to the freed machine m by its next pass.
C9_Witness ==
    \E r1, r2, r3 \in Requests : \E m, m2 \in machines :
        /\ Cardinality(machines) = 2 /\ m # m2 /\ r2 # r3
        /\ Released(r1) /\ bound[r1] = m /\ resetLog[r1] = <<m>>
        /\ req[r2] = "running" /\ Provisioned(r2, m2) /\ Labelled(r2, m2)
        /\ req[r3] = "running" /\ pc[r3] = "rcWriteStatus"
        /\ status[r3].exists /\ status[r3].stage = "PROVISIONING"
        /\ Labelled(r3, m) /\ uuid[r3] = m

\* C10: under fair scheduling, a running request with a free registered
\* machine is eventually PROVISIONED on a registered machine: it does not
\* stay forever running, with a machine free, and not PROVISIONED.
Unprovisioned(r) ==
    /\ req[r] = "running"
    /\ \E m \in Machines : Free(m)
    /\ ~\E m \in machines : Provisioned(r, m)

C10_EventuallyProvisioned ==
    \A r \in Requests : []<>(~Unprovisioned(r))

\* C11: when findMachineUUID reports errNoMachineAvailable the pass goes to
\* the status write without creating an allocation, and the status write
\* (unless the write itself fails) sets stage PROVISIONING, leaves the
\* allocations alone and ends the pass with a requeue after
\* requeueInterval (30 s), not with an error.
C11_ExhaustedSteps ==
    \A r \in Requests :
        /\ (/\ pc[r] = "rcListAllocations"
            /\ FindMachineUUID(ml[r], alloc, r).err = "errNoMachineAvailable"
            /\ pc'[r] \notin {"rcListAllocations", "idle"})
             => (/\ pc'[r] = "rcWriteStatus" /\ uuid'[r] = NoMachine
                 /\ alloc' = alloc)
        /\ (/\ pc[r] = "rcWriteStatus" /\ uuid[r] = NoMachine
            /\ pc'[r] = "idle"
            /\ ~(outcome'[r] = "error" /\ status' = status))
             => (/\ status'[r].exists /\ status'[r].stage = "PROVISIONING"
                 /\ alloc' = alloc
                 /\ outcome'[r] = "requeue"
                 /\ RequeueAfter(outcome'[r]) = 30)

C11_ExhaustedRequeues == [][C11_ExhaustedSteps]_vars

\* C11 witness: every registered machine is bound, and a running request
\* without allocation has ended its pass PROVISIONING with a requeue.
C11_Witness ==
    \E r \in Requests :
        /\ req[r] = "running" /\ pc[r] = "idle" /\ outcome[r] = "requeue"
        /\ status[r].exists /\ status[r].stage = "PROVISIONING"
        /\ ~HasAlloc(r)
        /\ machines # {} /\ \A m \in machines : ~Free(m)

\* C12: in every reachable state and for every request R, findMachineUUID
\* of R never returns a machine that an allocation of another request is
\* labelled with; it returns errNoMachineAvailable iff every listed machine
\* carries an allocation of a request other than R; and a machine without
\* allocation is eligible: listed first (here: alone) it is returned.
ReferencedByOther(r, m) == \E o \in Requests \ {r} : Labelled(o, m)

C12_MatchRespectsAllocations ==
    \A r \in Requests :
        LET f == FindMachineUUID(machines, alloc, r)
        IN  /\ f.err = "nil" =>
                 (f.machineUUID \in machines
                    /\ ~ReferencedByOther(r, f.machineUUID))
            /\ f.err = "errNoMachineAvailable" <=>
                 (\A m \in machines : ReferencedByOther(r, m))
            /\ \A m \in machines :
                 Free(m) => FindMachineUUID({m}, alloc, r) =
                     [machineUUID |-> m, isAllocated |-> FALSE, err |-> "nil"]

\* C13: a boot query for an id without allocation goes on to the lookup of
\* the QemuMachine; without a QemuMachine of the id it goes on to Create,
\* which adds exactly the QemuMachine of the id, and then answers 404; with
\* a QemuMachine of the id (every later query) it answers 404 and no step
\* of it changes the set of QemuMachines.  (Queries for the id one after the
\* other, store calls not failing.)
Unallocated(m) == \A r \in Requests : ~Labelled(r, m)

C13_Steps ==
    \A k \in Queries :
        LET id == q[k].id
        IN  /\ (/\ q[k].pc = "list" /\ Unallocated(id)
                /\ q'[k].pc \notin {"list", "error"})
                 => (q'[k].pc = "get" /\ machines' = machines)
            /\ (q[k].pc = "get" /\ q'[k].pc \notin {"get", "error"})
                 => (/\ machines' = machines
                     /\ q'[k].pc = IF id \in machines
                                   THEN "notAllocated" ELSE "create")
            /\ (q[k].pc = "create" /\ q'[k].pc = "notAllocated")
                 => (id \notin machines /\ machines' = machines \cup {id})
            /\ (q[k].pc = "notAllocated" /\ q'[k].pc # "notAllocated")
                 => (/\ id \in machines /\ machines' = machines
                     /\ q'[k].pc = "notFound")
            /\ (q[k].pc = "notFound" /\ q'[k].pc # "notFound")
                 => (/\ id \in machines /\ machines' = machines
                     /\ q'[k].pc = "idle" /\ resp'[id].code = 404)

C13_SoloCreateIsFirstSighting ==
    \A k \in Queries :
        (q[k].pc = "create" /\ q[k].solo) => q[k].id \notin machines

C13_UnknownIdRegisteredOnce ==
    /\ [][C13_Steps]_vars
    /\ []C13_SoloCreateIsFirstSighting

\* C13 witness: an earlier query for the id was answered 404 and is over;
\* a later query for the id, alone in flight all along, has found the
\* QemuMachine and is about to answer 404; the id has no allocation.
C13_Witness ==
    \E k \in Queries :
        /\ q[k].pc = "notAllocated" /\ q[k].solo
        /\ resp[q[k].id].code = 404
        /\ q[k].id \in machines /\ Unallocated(q[k].id)

\* C14: a boot query for an id that allocations are labelled with gets one
\* of them from the lookup, and answers 200 text/plain with the chain
\* directive to <base-url>/pxe/<schematic id>/<version>/metal-amd64 of
\* that allocation, the version as it is if it starts with "v" and with "v"
\* put in front otherwise (doing so again changes nothing); no step of the
\* query changes the QemuMachines.
C14_Version(a) ==
    IF a.talosVersion # <<>> /\ Head(a.talosVersion) = "v"
    THEN a.talosVersion
    ELSE <<"v">> \o a.talosVersion

C14_Steps ==
    \A k \in Queries :
        LET id == q[k].id
            a == q[k].found
        IN  /\ (/\ q[k].pc = "list" /\ ~Unallocated(id)
                /\ q'[k].pc \notin {"list", "error"})
                 => (/\ q'[k].pc = "matched"
                     /\ \E r \in Requests :
                           Labelled(r, id) /\ q'[k].found = alloc[r]
                     /\ machines' = machines)
            /\ (q[k].pc = "matched" /\ q'[k].pc # "matched")
                 => (/\ q'[k].pc = "render" /\ q'[k].found = a
                     /\ machines' = machines)
            /\ (q[k].pc = "render" /\ q'[k].pc # "render"
                /\ resp'[id].code # 500)
                 => (/\ q'[k].pc = "idle"
                     /\ machines' = machines
                     /\ resp'[id] =
                          [code |-> 200, contentType |-> "text/plain",
                           body |-> <<"#!ipxe", "chain --replace ", "base-url",
                                      "/pxe/", a.schematicId, "/",
                                      C14_Version(a), "/metal-amd64">>]
                     /\ NormalizeVersion(C14_Version(a)) = C14_Version(a))

C14_WitnessFor(m, r) ==
    /\ Labelled(r, m) /\ resp[m].code = 200
    /\ resp[m].body[5] = alloc[r].schematicId
    /\ Head(resp[m].body[7]) = "v"

C15_NotReadyStep ==
    \A r \in Requests :
        (pc[r] = "tdTeardown" /\ pc'[r] = "idle" /\ outcome'[r] = "requeueError")
            => (/\ RequeueAfter(outcome'[r]) = 30
                /\ UNCHANGED <<alloc, fin, req, resetLog, resetOK>>)

C15_NotReadyKeeps ==
    \A r \in Requests :
        (pc[r] = "idle" /\ outcome[r] = "requeueError")
            => (/\ req[r] = "tearingDown" /\ fin[r]
                /\ HasAlloc(r) /\ resetLog[r] = <<>>)

C15_NotReadyRequeues == [][C15_NotReadyStep]_vars /\ []C15_NotReadyKeeps

\* C15 witness: a request being torn down whose pass ended on the not-ready
\* report, with its allocation, its finalizer and no reset.
C15_Witness ==
    \E r \in Requests :
        /\ pc[r] = "idle" /\ outcome[r] = "requeueError"
        /\ req[r] = "tearingDown" /\ fin[r]
        /\ HasAlloc(r) /\ resetLog[r] = <<>>

\* C16: a teardown pass that reads an allocation without machine uuid label
\* goes on to Teardown and Destroy; its Destroy step removes the allocation
\* and goes to the release of the finalizer without a reset, and the
\* release drops the finalizer and the request; a ResetMachine call is
\* never made without a label.
C16_Steps ==
    \A r \in Requests :
        /\ (/\ pc[r] = "tdGet" /\ HasAlloc(r) /\ alloc[r].uuid = NoMachine
            /\ pc'[r] \notin {"tdGet", "idle"})
             => (pc'[r] = "tdTeardown" /\ uuid'[r] = NoMachine)
        /\ (/\ pc[r] = "tdDestroy" /\ uuid[r] = NoMachine
            /\ pc'[r] \notin {"tdDestroy", "idle"})
             => (/\ pc'[r] = "tdRelease" /\ ~alloc'[r].exists
                 /\ UNCHANGED <<resetLog, resetOK, machines>>)
        /\ (pc[r] = "tdRelease" /\ pc'[r] = "idle")
             => (/\ ~fin'[r] /\ req'[r] = "absent"
                 /\ UNCHANGED <<resetLog, resetOK, alloc>>)

C16_NoResetWithoutLabel ==
    \A r \in Requests : pc[r] = "tdReset" => uuid[r] # NoMachine

C16_MissingLabelReleases == [][C16_Steps]_vars /\ []C16_NoResetWithoutLabel

\* C16 witness: the request had an allocation labelled with a machine, the
\* label was lost, and the teardown has released the finalizer with the
\* allocation destroyed and no reset issued.
C16_Witness ==
    \E r \in Requests :
        /\ Released(r) /\ bound[r] # NoMachine
        /\ ~HasAlloc(r) /\ ~fin[r] /\ resetLog[r] = <<>>

\* C17: in every reachable state of an interleaved run, while a teardown
\* pass is at its ResetMachine call for machine M (the reset is issued and
\* has not finished) no allocation is labelled with M.
C17_NoResetWhileAllocated ==
    \A r1 \in Requests :
        pc[r1] = "tdReset" => \A r2 \in Requests : ~Labelled(r2, uuid[r1])

\* C18: with passes run one at a time, every creation of an allocation
\* labels it with a machine that no existing allocation is labelled with,
\* and in every reachable state no two allocations share a label.
C18_CreateStep ==
    \A r \in Requests :
        (~HasAlloc(r) /\ alloc'[r].exists)
            => (/\ alloc'[r].uuid \in machines
                /\ \A o \in Requests : ~Labelled(o, alloc'[r].uuid))

C18_SerialPassesKeepLabelsUnique ==
    /\ [][C18_CreateStep]_vars
    /\ [](\A r1, r2 \in Requests :
            (r1 # r2 /\ HasAlloc(r1)) => ~Labelled(r2, alloc[r1].uuid))

\* C18 witness: two allocations on distinct machines, one of them on a
\* machine that a released request was bound to before.
C18_Witness ==
    \E r1, r2, r3 \in Requests :
        /\ r1 # r2 /\ HasAlloc(r1) /\ HasAlloc(r2)
        /\ alloc[r1].uuid # alloc[r2].uuid
        /\ Released(r3) /\ bound[r3] = alloc[r1].uuid

\* C19: for a running request whose status is PROVISIONED with machine M,
\* every reconcile pass finds M as already allocated and goes to the
\* status write (it does not pick a machine anew and does not end
\* exhausted), and its status write leaves the status PROVISIONED with M.
C19_Steps ==
    \A r \in Requests :
        LET M == status[r].id
        IN  (req[r] = "running" /\ Provisioned(r, M)) =>
              /\ (pc[r] = "rcListAllocations"
                    /\ pc'[r] \notin {"rcListAllocations", "idle"})
                   => (pc'[r] = "rcWriteStatus" /\ uuid'[r] = M)
              /\ (pc[r] = "rcWriteStatus" /\ pc'[r] = "idle"
                    /\ outcome'[r] # "error")
                   => (outcome'[r] = "ok" /\ ProvisionedNext(r, M))

C19_ProvisionedIsStable == [][C19_Steps]_vars

\* C20: in every reachable state, for a request without allocation and
\* with a listed machine that no allocation is labelled with,
\* findMachineUUID returns such a machine, the first of them in listing
\* order, with isAllocated = FALSE.
C20_FirstFreeMachine ==
    \A r \in Requests :
        (~HasAlloc(r) /\ \E m \in machines : Free(m)) =>
            LET f == FindMachineUUID(machines, alloc, r)
            IN  /\ f.err = "nil" /\ ~f.isAllocated
                /\ Free(f.machineUUID)
                /\ \A m \in machines : Free(m) => f.machineUUID <= m

\* C20 witness: a pass of a request without allocation has picked the
\* second listed machine, the first being bound to another request, and a
\* call on the store returns that pick.
C20_Witness ==
    \E r \in Requests :
        /\ pc[r] = "rcCreate" /\ ~HasAlloc(r)
        /\ uuid[r] \in machines /\ \E m \in machines : m < uuid[r]
        /\ FindMachineUUID(machines, alloc, r).machineUUID = uuid[r]

\* C21: on a new pick of machine M for request R, a successful Create adds
\* exactly the allocation with the id of R, labelled M and carrying the
\* schematic id and version of the request as the pass read it, and changes
\* no other allocation; a Create that fails leaves allocations and status
\* alone and ends the pass; the status write for a pick happens only with
\* the allocation of R labelled with the pick in the store, and sets
\* PROVISIONED with M.
C21_Steps ==
    \A r \in Requests :
        /\ (pc[r] = "rcCreate" /\ pc'[r] = "rcWriteStatus")
             => (/\ ~HasAlloc(r)
                 /\ alloc'[r] =
                      [exists |-> TRUE, uuid |-> uuid[r],
                       schematicId |-> SchematicIdAt(r, rspec[r].rev),
                       talosVersion |-> TalosVersionAt(r, rspec[r].rev)]
                 /\ \A o \in Requests \ {r} : alloc'[o] = alloc[o]
                 /\ status' = status)
        /\ (pc[r] = "rcCreate" /\ pc'[r] = "idle")
             => (alloc' = alloc /\ status' = status /\ outcome'[r] = "error")
        /\ (pc[r] = "rcWriteStatus" /\ uuid[r] # NoMachine /\ status' # status)
             => (ProvisionedNext(r, uuid[r]) /\ alloc' = alloc)

C21_StatusOnlyAfterCreate ==
    \A r \in Requests :
        (pc[r] = "rcWriteStatus" /\ uuid[r] # NoMachine) => Labelled(r, uuid[r])

C21_NewPickCreatesOneAllocation ==
    [][C21_Steps]_vars /\ []C21_StatusOnlyAfterCreate

\* C21 witness: the pass over a request whose image reference was changed
\* before the pass has created the allocation with the changed image and
\* is about to write the status.
C21_Witness ==
    \E r \in Requests :
        /\ pc[r] = "rcWriteStatus" /\ bound[r] = uuid[r] /\ uuid[r] # NoMachine
        /\ ~(status[r].exists /\ status[r].stage = "PROVISIONED")
        /\ rspec[r].rev > 0
        /\ alloc[r].schematicId = SchematicIdAt(r, rspec[r].rev)

RcPcs == {"rcListMachines", "rcListAllocations", "rcCreate", "rcWriteStatus"}

\* C22: a reconcile pass over a request that has its allocation creates,
\* updates and destroys no allocation, and no step at all changes an
\* allocation that stays in the store: it keeps its label and the schematic
\* id and version it was created with when the request names another image,
\* so the script rendered from it stays the same.
C22_Steps ==
    \A r \in Requests :
        /\ (HasAlloc(r) /\ pc'[r] # pc[r] /\ (pc[r] \in RcPcs \/ pc'[r] \in RcPcs))
             => alloc' = alloc
        /\ (alloc[r].exists /\ alloc'[r].exists)
             => (alloc'[r] = alloc[r] /\ IpxeScript(alloc'[r]) = IpxeScript(alloc[r]))

C22_BoundPassLeavesAllocation == [][C22_Steps]_vars

\* C22 witness: a pass over a bound request has read an image reference that
\* differs from the one the allocation carries, found the request bound and
\* is about to write the status.
C22_Witness ==
    \E r \in Requests :
        /\ pc[r] = "rcWriteStatus" /\ HasAlloc(r) /\ uuid[r] = alloc[r].uuid
        /\ status[r].exists /\ status[r].stage = "PROVISIONED"
        /\ rspec[r].rev > 0
        /\ alloc[r].schematicId = SchematicIdAt(r, 0)
        /\ alloc[r].schematicId # rspec[r].schematicId
        /\ IpxeScript(alloc[r]) # IpxeScript(NewAllocation(r, uuid[r]))

\* C23: a reconcile pass whose list of machines, list of allocations or
\* Create fails ends right there with the error handed to the runtime (the
\* call is not tried again inside the pass), with the status and every
\* allocation as they were; up to the Create the pass writes nothing, so the
\* failed pass has created no allocation.
C23_Steps ==
    \A r \in Requests :
        /\ (pc[r] \in {"rcListMachines", "rcListAllocations", "rcCreate"}
             /\ pc'[r] = "idle")
             => (/\ outcome'[r] = "error"
                 /\ status' = status
                 /\ alloc' = alloc)
        /\ (pc[r] \in {"idle", "rcListMachines", "rcListAllocations"}
             /\ pc'[r] \in RcPcs /\ pc'[r] # pc[r])
             => (status' = status /\ alloc' = alloc)
        /\ (pc[r] = "rcListMachines" /\ pc'[r] # pc[r])
             => pc'[r] \in {"rcListAllocations", "idle"}
        /\ (pc[r] = "rcListAllocations" /\ pc'[r] # pc[r])
             => pc'[r] \in {"rcCreate", "rcWriteStatus", "idle"}
        /\ (pc[r] = "rcCreate" /\ pc'[r] # pc[r])
             => pc'[r] \in {"rcWriteStatus", "idle"}

C23_FailedCallEndsPass == [][C23_Steps]_vars

\* C23 witness: the last pass over a running request ended with an error
\* while a registered machine was free, and the request has neither an
\* allocation nor a status.
C23_Witness ==
    \E r \in Requests :
        /\ req[r] = "running" /\ pc[r] = "idle" /\ outcome[r] = "error"
        /\ ~HasAlloc(r) /\ ~status[r].exists
        /\ \E m \in machines : Free(m)

\* C24: a boot query answers 500 only when one of its store calls has
\* failed; in particular, of two queries in flight for the same id not seen
\* before, one creates the QemuMachine and neither ends in the error
\* response.
C24_ConcurrentFirstSightings ==
    \A k \in Queries : q[k].pc = "error" => q[k].err = "io"

\* C25: the set of ids known as unallocated follows the responses: a query
\* that has found an allocation and answers 200 while no other query for
\* its id is in flight leaves the id out of the set (the last response for
\* the id is then not a 404, and the set holds an id only if it is).
C25_Steps ==
    \A k \in Queries :
        (/\ q[k].pc = "render" /\ q'[k].pc = "idle"
         /\ resp'[q[k].id].code = 200
         /\ \A j \in Queries \ {k} : q'[j].id # q[k].id)
            => q[k].id \notin unalloc'

C25_SetFollowsLastResponse == [][C25_Steps]_vars

\* C26: a boot query one of whose store calls (the list of allocations, the
\* Get or the Create of the QemuMachine) fails makes no further store call:
\* from the failure on it leaves the QemuMachines and the set of unallocated
\* ids as they are, and its response is 500 with the generic body.
C26_Steps ==
    \A k \in Queries :
        LET id == q[k].id
        IN  /\ (q[k].pc \in {"list", "get", "create"} /\ q'[k].pc = "error")
                 => UNCHANGED <<machines, unalloc, resp, alloc>>
            /\ (q[k].pc = "error" /\ q'[k].pc # "error")
                 => (/\ q'[k].pc = "idle"
                     /\ resp'[id] = [code |-> 500, contentType |-> "",
                                     body |-> <<"internal server error">>]
                     /\ UNCHANGED <<machines, unalloc, alloc>>)

C26_StoreErrorIs500 == [][C26_Steps]_vars

\* C26 witness: the query for an id never seen has been answered 500 after
\* a failed store call: no QemuMachine for the id, the id not in the set.
C26_Witness ==
    \E m \in Machines :
        /\ resp[m].code = 500 /\ resp[m].body = <<"internal server error">>
        /\ m \notin machines /\ m \notin unalloc
        /\ \A k \in Queries : q[k].pc = "idle"

\* C27: a 500 response carries the generic body and nothing else, also
\* when it answers a failed execution of the script template: no part of
\* the script follows the error body.
C27_RenderFailureIsBare500 ==
    \A m \in Machines :
        resp[m].code = 500 => resp[m].body = <<"internal server error">>

\* C28: a step of a boot query leaves every allocation, every request
\* status and every request (its finalizer included) as it is; the one
\* store write of a query is the Create of the QemuMachine with the id
\* asked for.
C28_Steps ==
    q' # q =>
        /\ UNCHANGED <<alloc, status, req, fin>>
        /\ \/ machines' = machines
           \/ \E k \in Queries :
                 /\ q[k].pc = "create" /\ q'[k] # q[k]
                 /\ q[k].id \notin machines
                 /\ machines' = machines \cup {q[k].id}

C28_QueriesOnlyRegister == [][C28_Steps]_vars

\* C28 witness: a query has just registered its id as a QemuMachine while
\* a request holds an allocation and a status.
C28_Witness ==
    \E k \in Queries :
        /\ q[k].pc = "notAllocated" /\ q[k].id \in machines
        /\ resp[q[k].id] = NoResponse /\ q[k].solo
        /\ \E r \in Requests :
              HasAlloc(r) /\ status[r].exists /\ alloc[r].uuid # q[k].id

\* C29: with the state not cleared at start, the set of QemuMachines only
\* grows: no step of a reconcile pass, of a teardown pass (the reset of the
\* machine included) or of a boot query takes one out, and a QemuMachine
\* comes into the store only by the Create of a boot query, which no
\* controller step accompanies.
C29_Steps ==
    /\ machines \subseteq machines'
    /\ machines' # machines
         => (/\ \E k \in Queries :
                   /\ q[k].pc = "create" /\ q'[k].pc = "notAllocated"
                   /\ machines' = machines \cup {q[k].id}
             /\ UNCHANGED <<pc, req, fin, status, alloc, resetLog>>)

C29_MachinesOnlyGrow == [][C29_Steps]_vars

\* C29 witness: the request bound to a registered machine has been torn
\* down, its allocation destroyed and the machine reset, and the
\* QemuMachine is in the store.
C29_Witness ==
    \E r \in Requests :
        /\ resetOK[r] /\ ~HasAlloc(r) /\ resetLog[r] # <<>>
        /\ \A i \in 1..Len(resetLog[r]) : resetLog[r][i] \in machines

\* C30: once the reconcile loop runs beside the three goroutines of the
\* errgroup, a failure of the loop or of a goroutine cancels the context;
\* and when Run returns after such a failure, the loop and the three
\* goroutines have all terminated and Run returns an error.
Failure == \E t \in Tasks : task[t] = "failed"
Started == task["loop"] # "unstarted"

C30_Return ==
    (Started /\ runErr = "none" /\ runErr' # "none" /\ Failure')
        => (/\ \A t \in Tasks : task'[t] \in {"done", "failed"}
            /\ runErr' = "error")

C30_FailureStopsAll ==
    /\ []((Started /\ Failure) => ctxDone)
    /\ [][C30_Return]_vars

\* C31: once the context is cancelled the iPXE server shuts down: from the
\* call of Shutdown on the listener accepts nothing; Server.Run returns nil
\* only with no query in flight; and when Shutdown gives up after the grace
\* period, Server.Run returns with the remaining connections closed.
C31_Stopped ==
    task["ipxe"] \in {"draining", "done", "failed"} => ~listening

C31_Steps ==
    /\ (task["ipxe"] = "draining" /\ task'["ipxe"] = "done") => Inflight = {}
    /\ (task["ipxe"] = "draining" /\ task'["ipxe"] = "failed")
         => \A c \in Conns : conn'[c] # "active"

C31_ListenerShutsDown == []C31_Stopped /\ [][C31_Steps]_vars

Wiped == [size |-> diskSize, data |-> FALSE]

\* C32: ResetMachine has wiped the machine's disk when it makes the reboot
\* call; a call that returns nil found no launch config, or has wiped the
\* disk (every disk operation succeeded) and, where a gateway address is
\* known, got status 200 from the reboot endpoint, so a failed disk
\* operation, a failed or timed out reboot call and another status all
\* return an error; with no launch config the call returns nil, changes no
\* disk and makes no reboot call.
C32_Steps ==
    /\ (rm.reboot = "none" /\ rm'.reboot # "none" /\ rm.conf.disks > 0)
         => rm.disk[1] = Wiped
    /\ (rm.pc # "idle" /\ rm'.pc = "idle" /\ rm'.err = "nil"
         /\ rm.conf.state # "missing")
         => /\ rm.conf.state = "ok"
            /\ rm.conf.disks > 0 => rm'.disk[1] = Wiped
            /\ rm.conf.gateways > 0 => rm'.reboot = "status200"
    /\ (rm.pc \in {"truncateZero", "truncateSize"} /\ rm'.pc = "idle")
         => rm'.err = "error"
    /\ (rm.pc # "idle" /\ rm.conf.state = "missing")
         => /\ rm'.disk = rm.disk /\ rm'.reboot = "none"
            /\ rm'.pc = "idle" /\ rm'.err = "nil"

C32_ResetFailsOnAnyFailure == [][C32_Steps]_vars

C32_Witness ==
    /\ rm.pc = "idle" /\ rm.err = "error" /\ rm.reboot = "timeout"
    /\ rm.disk[1] = Wiped

\* C33: a reboot call that fails on the network because the management
\* endpoint is gone makes ResetMachine return no error.
C33_GoneEndpointIsSuccess == rm.reboot = "gone" => rm.err = "nil"

\* C34: with an existing pool Run makes no creation request and returns nil,
\* whatever the pool's size; with no pool it makes at most one creation
\* request, that request holds exactly numMachines nodes, and after it Run
\* returns only on the cancelled context, and then nil.
C34_Steps ==
    /\ (pool.pc = "blocked" /\ pool'.pc # "blocked")
         => ctxDone /\ pool'.pc = "returned" /\ pool'.err = "nil"
    /\ pool'.created # pool.created
         => /\ pool.existing.state = "none" /\ pool.created = <<>>
            /\ Len(pool'.created) = 1
            /\ Len(pool'.created[1].Nodes) = pool.numMachines
            /\ pool'.pc = "blocked"
    /\ (pool.pc = "reflect" /\ pool' # pool /\ pool.existing.state = "loaded")
         => pool'.pc = "returned" /\ pool'.err = "nil"

C34_Loaded == pool.existing.state = "loaded" => pool.created = <<>>

C34_ReflectOrCreate == []C34_Loaded /\ [][C34_Steps]_vars

C34_Witness ==
    /\ pool.pc = "returned" /\ pool.err = "nil"
    /\ pool.existing.state = "loaded" /\ pool.existing.nodes # pool.numMachines
    /\ pool.numMachines > 0

C34_WitnessCreated ==
    /\ pool.pc = "returned" /\ pool.err = "nil"
    /\ Len(pool.created) = 1 /\ Len(pool.created[1].Nodes) = 2

\* The n-th address of a subnet, counted from the address after the
\* prefix's own.
Nth(cidr, n) == cidr.addr + n

\* Machine i (0-based) of a pool of n machines can get its address.
Supplies(cidr, n) == \A i \in 0..(n - 1) : Contains(cidr, Nth(cidr, i + 2))

\* C35: a creation request carries the 1st address of the subnet as gateway
\* and the (i+2)-th as the address of machine i, all of them inside the
\* subnet, pairwise distinct and different from the gateway; when the
\* subnet cannot supply some machine's address and no pool exists, Run
\* returns an error and has made no creation request.
C35_Addresses ==
    \A k \in 1..Len(pool.created) :
        LET request == pool.created[k]
        IN /\ request.GatewayAddrs = Nth(pool.subnetCIDR, 1)
           /\ \A i \in 0..(Len(request.Nodes) - 1) :
                 /\ request.Nodes[i + 1] = Nth(pool.subnetCIDR, i + 2)
                 /\ Contains(pool.subnetCIDR, request.Nodes[i + 1])
                 /\ request.Nodes[i + 1] # request.GatewayAddrs
                 /\ \A j \in 0..(Len(request.Nodes) - 1) :
                       i # j => request.Nodes[i + 1] # request.Nodes[j + 1]

C35_Exhausted ==
    (pool.existing.state = "none" /\ ~Supplies(pool.subnetCIDR, pool.numMachines))
      => /\ pool.created = <<>>
         /\ pool.pc = "returned" => pool.err = "error"

C35_SequentialAddresses == C35_Addresses /\ C35_Exhausted

C35_Witness ==
    /\ pool.pc = "returned" /\ pool.err = "error" /\ Len(pool.nodes) = 2
    /\ pool.existing.state = "none" /\ pool.numMachines = 3

C35_WitnessCreated ==
    /\ Len(pool.created) = 1 /\ Len(pool.created[1].Nodes) = 2
    /\ pool.created[1].GatewayAddrs = 1

FreeMachines == {m \in Machines : Free(m)}

\* C36: a request whose cloud-provider-id label is missing or names another
\* provider has no status, no allocation, no finalizer of the controller, no
\* reset and no pass of the controller; and whenever the number of free
\* machines goes down, the step gives an allocation to a request that
\* carries this provider's id.
C36_Untouched ==
    \A r \in Requests :
        label[r] # ProviderID
          => /\ status[r] = NoStatus /\ ~alloc[r].exists /\ ~fin[r]
             /\ resetLog[r] = <<>> /\ bound[r] = NoMachine
             /\ pc[r] = "idle"

C36_Steps ==
    Cardinality({m \in Machines : m \in machines' /\ \A r \in Requests :
                    ~(alloc'[r].exists /\ alloc'[r].uuid = m)})
      < Cardinality(FreeMachines)
      => \E r \in Requests :
            label[r] = ProviderID /\ ~alloc[r].exists /\ alloc'[r].exists

C36_UnlabelledIgnored == []C36_Untouched /\ [][C36_Steps]_vars

C36_Witness ==
    \E r, o \in Requests :
        /\ req[r] = "running" /\ label[r] = "other"
        /\ label[o] = ProviderID /\ alloc[o].exists
        /\ FreeMachines # {}

Attempted(x) == clr.rec[x] \in ItemOutcomes
TasksStarted == \E t \in Tasks : task[t] # "unstarted"

\* C37: no task is started before clearState has returned, and none is
\* started after it returned an error; a record is attempted only after
\* the pool was destroyed without error; when the three lists were read,
\* clearState returns only after it attempted every record there was,
\* failures on other records notwithstanding; clearState returns an error
\* exactly when the pool, a list or a record failed, and then Run returns an
\* error with no task started.
C37_ClearBeforeStart ==
    /\ TasksStarted => (clr.pc = "returned" /\ clr.err = "nil")
    /\ (\E x \in Records : Attempted(x)) => clr.poolErr = "nil"
    /\ (clr.pc = "returned" /\ clr.clear /\ clr.listed = Len(ListOrder))
         => \A x \in Records : clr.rec[x] # "present"
    /\ (clr.pc = "returned" /\ clr.clear)
         => (clr.err = "error" <=>
               \/ clr.poolErr # "nil"
               \/ clr.listed < Len(ListOrder)
               \/ \E x \in Records : clr.rec[x] \in {"getFailed", "destroyFailed"})
    /\ (clr.pc = "returned" /\ clr.err = "error" /\ main # "clear")
         => (main = "returned" /\ runErr = "error" /\ ~TasksStarted)

C37_Witness ==
    /\ main = "returned" /\ runErr = "error"
    /\ clr.rec[<<1, 1>>] = "getFailed" /\ clr.rec[<<2, 1>>] = "destroyed"
    /\ clr.rec[<<3, 1>>] = "destroyFailed"

C37_WitnessStarted ==
    /\ TasksStarted /\ clr.clear /\ clr.cluster = "destroyed"
    /\ \A x \in Records : clr.rec[x] = "destroyed"

\* The slots the setup may take, and what they held before the run.
Candidates == {u \in Slots : 2 <= u /\ u <= bmc.MaxUsers % 32}
Holds(u) == bmc.before[u].used /\ bmc.before[u].name = bmc.username
Unused(u) ==
    \/ ~bmc.before[u].used
    \/ bmc.before[u].name \in {<<>>, <<"(Empty User)">>, <<"(Empty User)", " ">>}
ScanOver == bmc.pc \notin {"summary", "scan"} /\ bmc.i >= 2
Lowest(S) == CHOOSE u \in S : \A v \in S : u <= v
Selected ==
    IF \E u \in Candidates : Holds(u)
    THEN Lowest({u \in Candidates : Holds(u)})
    ELSE IF \E u \in Candidates : Unused(u)
    THEN Lowest({u \in Candidates : Unused(u)})
    ELSE 0

\* C38: once the scan is over the selected slot is never slot 1: it is the
\* lowest slot of 2..maxUsers that holds the username if there is one, else
\* the lowest unused or empty one, else none; with none the run fails with
\* "no slot available for user" and no user is changed; no slot but the
\* selected one is ever changed, the name of a slot that held the username
\* is not written, and a run that succeeds has set the name, reset the
\* password and enabled the user of the selected slot.
C38_SlotSelection ==
    /\ ScanOver
         => /\ bmc.userID = Selected /\ bmc.userID # 1
            /\ bmc.exists = (\E u \in Candidates : Holds(u))
            /\ bmc.exists => bmc.users[bmc.userID].name = bmc.before[bmc.userID].name
    /\ \A u \in Slots : u # bmc.userID => bmc.users[u] = bmc.before[u]
    /\ bmc.users[1] = bmc.before[1]
    /\ (bmc.pc = "returned" /\ ScanOver /\ Selected = 0)
         => (bmc.err = "no slot available for user" /\ bmc.users = bmc.before)
    /\ bmc.err = "no slot available for user" => Selected = 0
    /\ (bmc.pc = "returned" /\ bmc.err = "nil")
         => /\ bmc.userID \in Candidates
            /\ bmc.users[bmc.userID].name = bmc.username
            /\ bmc.users[bmc.userID].pass = "new"
            /\ bmc.users[bmc.userID].enabled

C38_Witness ==
    /\ bmc.pc = "returned" /\ bmc.err = "nil" /\ bmc.userID = 4 /\ bmc.exists
    /\ Unused(2) /\ bmc.MaxUsers > 32

C38_WitnessNoSlot ==
    /\ bmc.err = "no slot available for user" /\ bmc.MaxUsers % 32 = MaxSlots
    /\ Unused(1)

====
